---- MODULE Spec2Model ----
(***************************************************************************)
(* GhostFS: the batched write pipeline (code/db), the deterministic        *)
(* on-demand generator with its multi-view existence model                 *)
(* (code/db/tables), the SDK client that drives them (code/sdk) and the    *)
(* bulk seeder (seed).                                                     *)
(*                                                                         *)
(* The specifications share the state:                                     *)
(*   SpecQueue  one write queue at the granularity of its mutex: writers   *)
(*              (DB.QueueWrite), the timed flusher and readers (DB.Query). *)
(*   SpecGen    the client: open, list_children, clear_cache, close, with  *)
(*              the node cache, the tables and a queue per table.          *)
(*   SpecFiles  the client when ListItems is given the id of a file row.    *)
(*   SpecPair   two concurrent ListItems calls on the root.                 *)
(*   SpecTwin   two databases built side by side: init twice, or the bulk  *)
(*              seeder next to the lazy generator.                         *)
(*   SpecShutdown  the queue with a ForceFlushTable caller and DB.Close.   *)
(*   SpecTimed  writers and the timed flusher under fair scheduling.       *)
(*   SpecFail   the queue with a batch whose statement fails.              *)
(*   SpecViews  config.json, init_db, open/close and the table ids.        *)
(*   SpecFlush  one WriteQueue under concurrent Add and Flush calls.        *)
(*   SpecCommute  two clients over copies of one database listing two       *)
(*              folders in opposite orders.                                 *)
(*   SpecChildren  GenerateChildren's draws over a range of                 *)
(*              configurations and child seeds.                             *)
(*   SpecBulk   the bulk seeder level by level, write by write, next to     *)
(*              the timed flusher of the primary table's queue.             *)
(*   SpecStore  storeChildrenWithSeeds of one call, write by write, next    *)
(*              to the timed flusher.                                       *)
(*                                                                         *)
(* SHA-256 is modelled as an injective symbolic hash (the hashed fields    *)
(* are kept as a sequence), math/rand as a fixed function of the seed.     *)
(***************************************************************************)
EXTENDS Integers, Sequences, FiniteSets, TLC

VARIABLES
    wq,         \* table -> WriteQueue {queue, readyToWrite, isWriting, elapsed}
    db,         \* table -> set of rows (the committed database)
    txlog,      \* the transactions batchExecute has run, oldest first
    pc,         \* queue process -> its position
    hand,       \* queue process -> the batches its Flush call returned
    added,      \* ids of the operations whose WriteQueue.Add has returned
    enqueued,   \* ids of the operations whose DB.QueueWrite has returned
    nextOp,     \* id of the next operation a writer hands to QueueWrite
    current,    \* writer -> id of the operation its QueueWrite call carries
    mustSee,    \* reader -> operations enqueued before its Query started
    seen,       \* reader -> rows its Query returned
    reads,      \* number of Query calls started
    open,       \* the client is open (generator, cache and queues exist)
    dstProb,    \* secondary table -> dst_prob of the configuration, in percent
    nodeCache,  \* DeterministicGenerator.nodeCache: id -> CachedNodeData
    call,       \* caller -> its list_children call: position, arguments, locals, result
    first,      \* arguments -> what the first completed call with them returned and queued
    ncalls,     \* list_children calls started
    nclears,    \* clear_cache calls
    nopens,     \* times the client was opened
    dropped,    \* a QueueWrite has discarded the batches of its own Flush
    twin,       \* side -> [db, cache]: two databases built side by side
    tmode,      \* what SpecTwin compares: "init" (two init_db runs) or "seed"
    eager,      \* the bulk seeder of side "a": its state, level and parents to do
    config,     \* config.json as it stands on disk
    vdb,        \* the database file: its state and its table_id_lookup rows
    tm,         \* the client's TableManager: open, config, tableIDMap, tableNameMap
    vres,       \* what the last operation of SpecViews returned
    nids,       \* table ids GenerateTableID has handed out
    viewsSeen   \* <<table_id, table_name>> pairs list_views returned for this database

qvars == <<wq, db, txlog, pc, hand, added, enqueued, nextOp, current, mustSee, seen, reads>>
gvars == <<open, dstProb, nodeCache, call, first, ncalls, nclears, nopens, dropped>>
tvars == <<twin, tmode, eager>>
vvars == <<config, vdb, tm, vres, nids, viewsSeen>>
vars == <<qvars, gvars, tvars, vvars>>

----------------------------------------------------------------------------
(* Bounds *)

NumOps == 3          \* operations the writers of SpecQueue enqueue
BatchSize == 2       \* batch_size of every queue (1000 in the client, scaled)
MaxReads == 2        \* Query calls in SpecQueue
GenBatchSize == 4    \* batch_size of the client's queues (1000, scaled)
MaxCalls == 2        \* list_children calls in SpecGen
MaxClears == 1       \* clear_cache calls in SpecGen
MaxOpens == 2        \* times the client is opened in SpecGen
MaxLevel == 2        \* deepest level list_children materializes in SpecGen
MaxTableIDs == 9     \* table ids GenerateTableID hands out in SpecViews
PageSize == 2        \* parents per page of generateChildrenForLevelFromDB in SpecBulk
MaxChildren == 2     \* largest min/max child count of the configurations of SpecChildren

----------------------------------------------------------------------------
(* Tables and rows *)

PrimaryTable == "nodes"
SecondaryNames == {"A", "B"}
Tables == {PrimaryTable} \cup SecondaryNames

NoSeed == <<>>       \* SQL NULL in the child_seed column

\* NodesTable.Schema: one row of a nodes table.  has_map = FALSE is a NULL
\* secondary_existence_map; emap is the JSON text of the column.
MkRow(id, parent, name, path, type, size, level, hasMap, emap, seed) ==
    [id |-> id, parent_id |-> parent, name |-> name, path |-> path,
     type |-> type, size |-> size, level |-> level, checked |-> FALSE,
     has_map |-> hasMap, emap |-> emap, child_seed |-> seed]

\* typesdb.WriteOp
WriteOp(path, query, opType) == [Path |-> path, Query |-> query, OpType |-> opType]

----------------------------------------------------------------------------
(* SQL statements and batchExecute *)

RowIds(rows) == {r.id : r \in rows}

\* The statements with INSERT OR REPLACE in the place of INSERT OR IGNORE
ExecStatementReplace(rows, q) ==
    CASE q.kind = "insert" ->
            IF q.row.id \in RowIds(rows)
            THEN [ok |-> FALSE, rows |-> rows]
            ELSE [ok |-> TRUE, rows |-> rows \cup {q.row}]
      [] q.kind = "insert_ignore" ->
            [ok |-> TRUE, rows |-> {r \in rows : r.id # q.row.id} \cup {q.row}]
      [] q.kind = "update_seed" ->
            [ok |-> TRUE,
             rows |-> {IF r.id = q.id THEN [r EXCEPT !.child_seed = q.seed] ELSE r
                       : r \in rows}]
      [] q.kind = "update_checked" ->
            [ok |-> TRUE,
             rows |-> {IF r.id = q.id THEN [r EXCEPT !.checked = TRUE] ELSE r
                       : r \in rows}]

\* One statement inside a transaction.  ok = FALSE is a failed Exec
\* (a plain INSERT on an existing primary key).
ExecStatement(rows, q) ==
    CASE q.kind = "insert" ->
            IF q.row.id \in RowIds(rows)
            THEN [ok |-> FALSE, rows |-> rows]
            ELSE [ok |-> TRUE, rows |-> rows \cup {q.row}]
      [] q.kind = "insert_ignore" ->
            IF q.row.id \in RowIds(rows)
            THEN [ok |-> TRUE, rows |-> rows]
            ELSE [ok |-> TRUE, rows |-> rows \cup {q.row}]
      [] q.kind = "update_seed" ->
            [ok |-> TRUE,
             rows |-> {IF r.id = q.id THEN [r EXCEPT !.child_seed = q.seed] ELSE r
                       : r \in rows}]
      [] q.kind = "update_checked" ->
            [ok |-> TRUE,
             rows |-> {IF r.id = q.id THEN [r EXCEPT !.checked = TRUE] ELSE r
                       : r \in rows}]

RECURSIVE ExecAll(_, _)
ExecAll(rows, ops) ==
    IF ops = <<>> THEN [ok |-> TRUE, rows |-> rows]
    ELSE LET r == ExecStatement(rows, Head(ops).Query)
         IN  IF r.ok THEN ExecAll(r.rows, Tail(ops)) ELSE [ok |-> FALSE, rows |-> rows]

\* What batchExecute does with the transaction when a statement has failed.
\* The deferred function tests the err of conn.Begin, which is nil: the err of
\* tx.Exec is a new variable of the loop body, so tx.Rollback is not called
\* and the function returns with the transaction neither committed nor
\* rolled back.
AfterFailedExec == "open"

\* batchExecute: every statement of the batch in one transaction.  The rows
\* are those committed: the statements of a transaction that did not commit
\* are not among them.
batchExecute(rows, ops) ==
    LET r == ExecAll(rows, ops)
    IN  IF r.ok THEN [ok |-> TRUE, rows |-> r.rows, state |-> "committed"]
        ELSE [ok |-> FALSE, rows |-> rows, state |-> AfterFailedExec]

----------------------------------------------------------------------------
(* WriteQueue *)

EmptyQueue == [p \in {} |-> <<>>]

\* NewWriteQueue.  elapsed stands for time.Since(lastFlushed) >= flushInterval.
NewWriteQueue(batchSize) ==
    [queue |-> EmptyQueue, batchSize |-> batchSize, readyToWrite |-> FALSE,
     isWriting |-> FALSE, elapsed |-> FALSE]

RECURSIVE TotalOps(_, _)
TotalOps(q, paths) ==
    IF paths = {} THEN 0
    ELSE LET p == CHOOSE x \in paths : TRUE
         IN  Len(q[p]) + TotalOps(q, paths \ {p})

\* WriteQueue.Add (node mode)
Add(w, path, op) ==
    LET q == IF path \in DOMAIN w.queue
             THEN [w.queue EXCEPT ![path] = Append(@, op)]
             ELSE w.queue @@ (path :> <<op>>)
    IN  [w EXCEPT !.queue = q,
                  !.readyToWrite = IF TotalOps(q, DOMAIN q) >= w.batchSize
                                   THEN TRUE ELSE @]

\* ShouldFlush without its isWriting test (what the gate is there to prevent)
FlushDecisionUngated(w, force) ==
    force \/ w.readyToWrite \/ (w.elapsed /\ DOMAIN w.queue # {})

\* ShouldFlush without its hasOperations test on the time-based flush
FlushDecisionTimed(w, force) ==
    /\ ~w.isWriting
    /\ force \/ w.readyToWrite \/ w.elapsed

\* The decision of WriteQueue.ShouldFlush
FlushDecision(w, force) ==
    /\ ~w.isWriting
    /\ force \/ w.readyToWrite \/ (w.elapsed /\ DOMAIN w.queue # {})

\* WriteQueue.ShouldFlush: the decision and, when it is to flush, the gate.
ShouldFlush(w, force) ==
    IF FlushDecision(w, force)
    THEN [flush |-> TRUE, w |-> [w EXCEPT !.isWriting = TRUE, !.readyToWrite = FALSE]]
    ELSE [flush |-> FALSE, w |-> w]

RECURSIVE Concat(_, _)
Concat(q, order) ==
    IF order = <<>> THEN <<>> ELSE q[Head(order)] \o Concat(q, Tail(order))

Orders(S) == {s \in [1..Cardinality(S) -> S] : \A x \in S : \E i \in DOMAIN s : s[i] = x}

OfType(ops, ty) == SelectSeq(ops, LAMBDA o : o.OpType = ty)

\* flushNodeQueue without the clearing of the queue
flushNodeQueueKept(w) ==
    IF DOMAIN w.queue = {}
    THEN {[w |-> w, batches |-> <<>>]}
    ELSE {[w |-> [w EXCEPT !.elapsed = FALSE],
           batches |-> <<Concat(w.queue, pathOrder)>>]
          : pathOrder \in Orders(DOMAIN w.queue)}

\* WriteQueue.flushNodeQueue: snapshot and clear.  The queue is a Go map keyed
\* by path and the batches come out of a Go map keyed by op type, so both
\* orders are the runtime's choice: the result is a set of outcomes.
flushNodeQueue(w) ==
    IF DOMAIN w.queue = {}
    THEN {[w |-> w, batches |-> <<>>]}
    ELSE {[w |-> [w EXCEPT !.queue = EmptyQueue, !.elapsed = FALSE],
           batches |-> [i \in DOMAIN tyOrder |->
                           OfType(Concat(w.queue, pathOrder), tyOrder[i])]]
          : pathOrder \in Orders(DOMAIN w.queue),
            tyOrder \in Orders(UNION {{w.queue[p][i].OpType : i \in DOMAIN w.queue[p]}
                                      : p \in DOMAIN w.queue})}

\* DB.QueueWrite as one step: wq.Add, then wq.Flush() without force, whose
\* batches the caller drops.
QueueWrite(w, query) ==
    LET w1 == Add(w, "", WriteOp("", query, "insert"))
        r  == ShouldFlush(w1, FALSE)
    IN  IF r.flush
        THEN [(CHOOSE o \in flushNodeQueue(r.w) : TRUE).w EXCEPT !.isWriting = FALSE]
        ELSE w1

\* A run of QueueWrite calls, each <<table, query>>, over the queues of all
\* tables.  A table without a queue (wqMap lookup fails) is skipped.
RECURSIVE QueueWrites(_, _)
QueueWrites(wqs, writes) ==
    IF writes = <<>> THEN wqs
    ELSE LET t == Head(writes)[1]
             q == Head(writes)[2]
         IN  QueueWrites(IF t \in DOMAIN wqs THEN [wqs EXCEPT ![t] = QueueWrite(@, q)]
                         ELSE wqs, Tail(writes))

----------------------------------------------------------------------------
(* Configuration, hashing and the PRNG *)

\* config.json: database.tables.primary (the secondary dst_prob values are
\* part of the state: they are chosen when the database is initialized).
Config ==
    [seed |-> 42, MinChildFolders |-> 1, MaxChildFolders |-> 2,
     MinChildFiles |-> 0, MaxChildFiles |-> 1, MinDepth |-> 1, MaxDepth |-> 1]

\* The order json.Marshal writes the keys in, and the order
\* GetSecondaryTableNames is taken to return.
SecondaryOrder == <<"A", "B">>

\* Values uuid.New() may return
RandomUUIDs == {<<901>>, <<902>>}

NameTable == <<"folder_0", "folder_1", "folder_2", "file_0.txt", "file_1.txt", "file_2.txt">>
NameCode(name) == CHOOSE i \in DOMAIN NameTable : NameTable[i] = name
FolderName(i) == "folder_" \o ToString(i)
FileName(i) == "file_" \o ToString(i) \o ".txt"

\* generateDeterministicSeed: SHA-256 over the master seed and the folder id,
\* kept symbolic (injective in both arguments).
generateDeterministicSeed(masterSeed, folderID) == <<masterSeed>> \o folderID

\* generateDeterministicUUID: SHA-256 over the seed and the name, kept symbolic.
generateDeterministicUUID(seed, name) == seed \o <<NameCode(name)>>

PlaceholderSeed == <<0>>     \* the int64 0 the cache holds as "no seed yet"

RECURSIVE Digest(_)
Digest(seed) ==
    IF seed = <<>> THEN 7
    ELSE (Digest(Tail(seed)) * 31 + Head(seed) * 17 + Len(seed)) % 1009

\* The k-th value (k = 0, 1, ...) drawn from rand.New(rand.NewSource(seed)),
\* as a number in 0..999.
Rand(seed, k) ==
    LET d == Digest(seed) + 97 * k
    IN  ((d * d) \div 7 + 389 * k + Digest(seed)) % 1000

\* rng.Intn(n) as the k-th draw
Intn(seed, k, n) == Rand(seed, k) % n

\* rng.Float64() < dst_prob as the k-th draw, dst_prob in percent
RollBelow(seed, k, probPct) == Rand(seed, k) < probPct * 10

\* buildPath of the generator
buildPath(parentPath, name) ==
    IF parentPath = "/" THEN "/" \o name ELSE parentPath \o "/" \o name

----------------------------------------------------------------------------
(* Existence maps *)

EmptyMap == [t \in {} |-> FALSE]

\* Go map lookup: a missing key reads false
Lookup(m, t) == t \in DOMAIN m /\ m[t]

\* SecondaryExistenceMap.ToJSON: the pairs, keys sorted
ToJSON(m) ==
    LET keys == SelectSeq(SecondaryOrder, LAMBDA t : t \in DOMAIN m)
    IN  [i \in DOMAIN keys |-> <<keys[i], m[keys[i]]>>]

\* FromJSON
FromJSON(j) ==
    [t \in {j[i][1] : i \in DOMAIN j} |-> j[CHOOSE i \in DOMAIN j : j[i][1] = t][2]]

\* determineSecondaryExistence: one draw per secondary config, in the order
\* the range over the secondaryConfigs map yields them.
DrawMap(seed, k, probs, order) ==
    [t \in {order[i] : i \in DOMAIN order} |->
        LET i == CHOOSE j \in DOMAIN order : order[j] = t
        IN  RollBelow(seed, k + i - 1, probs[t])]

determineSecondaryExistence(childSeed, probs, order) == DrawMap(childSeed, 0, probs, order)

\* checkParentDependencies
checkParentDependencies(parentExistenceMap, childExistenceMap, secondaryTableNames) ==
    [t \in secondaryTableNames |->
        Lookup(parentExistenceMap, t) /\ Lookup(childExistenceMap, t)]

----------------------------------------------------------------------------
(* The generator: children of one folder *)

\* dbTypes.Node as list_children returns it (timestamps left out)
\* A Node that keeps the level it is handed less one: the parent's own level
\* where the generator passes level + 1
NodeAtParentLevel(id, parent, name, path, type, size, level) ==
    [ID |-> id, ParentID |-> parent, Name |-> name, Path |-> path,
     Type |-> type, Size |-> size, Level |-> level - 1, Checked |-> FALSE]

Node(id, parent, name, path, type, size, level) ==
    [ID |-> id, ParentID |-> parent, Name |-> name, Path |-> path,
     Type |-> type, Size |-> size, Level |-> level, Checked |-> FALSE]

\* GenerateChildren, the draws: folders first, then (unless foldersOnly) the
\* file count and one size per file, all from the folder's child seed.
\* The folder count drawn from one value too many
NumFoldersWide(cfg, childSeed) ==
    cfg.MinChildFolders + Intn(childSeed, 0, cfg.MaxChildFolders - cfg.MinChildFolders + 2)

NumFolders(cfg, childSeed) ==
    cfg.MinChildFolders + Intn(childSeed, 0, cfg.MaxChildFolders - cfg.MinChildFolders + 1)

NumFiles(cfg, childSeed) ==
    cfg.MinChildFiles + Intn(childSeed, 1, cfg.MaxChildFiles - cfg.MinChildFiles + 1)

GenerateChildrenList(cfg, folderID, folderPath, level, foldersOnly, childSeed) ==
    LET folders == [i \in 1..NumFolders(cfg, childSeed) |->
                      Node(generateDeterministicUUID(childSeed, FolderName(i - 1)),
                           folderID, FolderName(i - 1),
                           buildPath(folderPath, FolderName(i - 1)), "folder", 0, level + 1)]
        files   == [i \in 1..NumFiles(cfg, childSeed) |->
                      Node(generateDeterministicUUID(childSeed, FileName(i - 1)),
                           folderID, FileName(i - 1),
                           buildPath(folderPath, FileName(i - 1)), "file",
                           100 + Intn(childSeed, 1 + i, 900), level + 1)]
    IN  IF foldersOnly THEN folders ELSE folders \o files

\* storeChildrenWithSeeds, one child: its seed, its existence map and the
\* QueueWrite calls.  The "primary" INSERT goes to the table the caller listed
\* through; secondary INSERTs carry no existence map.
ChildSeedOf(masterSeed, child) == generateDeterministicSeed(masterSeed, child.ID)

ChildExistenceMap(masterSeed, child, parentExistenceMap, probs, order) ==
    checkParentDependencies(
        parentExistenceMap,
        determineSecondaryExistence(ChildSeedOf(masterSeed, child), probs, order),
        SecondaryNames)

NodeRow(child, hasMap, json, seed) ==
    MkRow(child.ID, child.ParentID, child.Name, child.Path, child.Type, child.Size,
          child.Level, hasMap, json, seed)

InsertIgnore(row) == [kind |-> "insert_ignore", row |-> row]

StoreChildWrites(masterSeed, child, childExistenceMap, tableName) ==
    LET seed == ChildSeedOf(masterSeed, child)
        secs == SelectSeq(SecondaryOrder, LAMBDA t : Lookup(childExistenceMap, t))
    IN  <<<<tableName, InsertIgnore(NodeRow(child, TRUE, ToJSON(childExistenceMap), seed))>>>>
        \o [i \in DOMAIN secs |->
               <<secs[i], InsertIgnore(NodeRow(child, FALSE, <<>>, seed))>>]

----------------------------------------------------------------------------
(* Initialization (init_db) and the bulk seeder (seed) *)

AllTrue == [t \in SecondaryNames |-> TRUE]

\* createRootNodes: the root row of the primary table and of a secondary table
RootRow(rootID, masterSeed) ==
    MkRow(rootID, <<>>, "root", "/", "folder", 0, 0, TRUE, ToJSON(AllTrue),
          generateDeterministicSeed(masterSeed, rootID))

RootRowSecondary(rootID, masterSeed) ==
    MkRow(rootID, <<>>, "root", "/", "folder", 0, 0, FALSE, <<>>,
          generateDeterministicSeed(masterSeed, rootID))

\* InitDB: the tables after initialization
InitDB(rootID, masterSeed) ==
    [t \in Tables |-> IF t = PrimaryTable THEN {RootRow(rootID, masterSeed)}
                                           ELSE {RootRowSecondary(rootID, masterSeed)}]

\* The seeder's generateUUID: the n-th fresh value
FreshBase == 910
generateUUID(n) == <<FreshBase + n>>

\* The seeder's buildPath (no special case for the root)
seedBuildPath(parentPath, name) == parentPath \o "/" \o name

\* The seeder's single random stream, seeded with the master seed
SeedStream(masterSeed) == <<masterSeed>>

\* The seeder's state: position in the random stream, ids handed out, the
\* primary rows in rowid order and the rows of the secondary tables.
\* insertRootNode:
SeedStart(rootID) ==
    [pos |-> 1, n |-> 0,
     prim |-> <<MkRow(rootID, <<>>, "root", "/", "folder", 0, 0, TRUE, ToJSON(AllTrue), NoSeed)>>,
     sec |-> {<<t, MkRow(rootID, <<>>, "root", "/", "folder", 0, 0, FALSE, <<>>, NoSeed)>>
              : t \in SecondaryNames}]

\* generateChildrenForBatch, one child: uuid, existence draws, (file) size draw
SeedChild(st, masterSeed, parent, name, type, level, probs, order) ==
    LET id   == generateUUID(st.n)
        raw  == DrawMap(SeedStream(masterSeed), st.pos, probs, order)
        emap == checkParentDependencies(FromJSON(parent.emap), raw, SecondaryNames)
        k    == st.pos + Len(order)
        size == IF type = "file" THEN 100 + Intn(SeedStream(masterSeed), k, 900) ELSE 0
        path == seedBuildPath(parent.path, name)
    IN  [pos |-> IF type = "file" THEN k + 1 ELSE k,
         n |-> st.n + 1,
         prim |-> Append(st.prim, MkRow(id, parent.id, name, path, type, size, level,
                                        TRUE, ToJSON(emap), NoSeed)),
         sec |-> st.sec \cup
                 {<<t, MkRow(id, parent.id, name, path, type, size, level, FALSE, <<>>, NoSeed)>>
                  : t \in {u \in SecondaryNames : emap[u]}}]

RECURSIVE SeedChildren(_, _, _, _, _, _, _, _, _)
SeedChildren(st, masterSeed, parent, type, i, count, level, probs, order) ==
    IF i >= count THEN st
    ELSE SeedChildren(
             SeedChild(st, masterSeed, parent,
                       IF type = "folder" THEN FolderName(i) ELSE FileName(i),
                       type, level, probs, order),
             masterSeed, parent, type, i + 1, count, level, probs, order)

\* generateChildrenForBatch, one parent
SeedParent(st, cfg, parent, level, probs, order) ==
    LET numFolders == cfg.MinChildFolders
                      + Intn(SeedStream(cfg.seed), st.pos, cfg.MaxChildFolders - cfg.MinChildFolders + 1)
        st1 == SeedChildren([st EXCEPT !.pos = @ + 1], cfg.seed, parent, "folder", 0,
                            numFolders, level, probs, order)
        numFiles == cfg.MinChildFiles
                    + Intn(SeedStream(cfg.seed), st1.pos, cfg.MaxChildFiles - cfg.MinChildFiles + 1)
    IN  SeedChildren([st1 EXCEPT !.pos = @ + 1], cfg.seed, parent, "file", 0,
                     numFiles, level, probs, order)

\* generateChildrenForLevelFromDB: the folders of the parent level, by rowid
ParentsAt(prim, parentLevel) ==
    SelectSeq(prim, LAMBDA r : r.level = parentLevel /\ r.type = "folder")

RECURSIVE SeedParents(_, _, _, _, _, _)
SeedParents(st, cfg, parents, level, probs, order) ==
    IF parents = <<>> THEN st
    ELSE SeedParents(SeedParent(st, cfg, Head(parents), level, probs, order),
                     cfg, Tail(parents), level, probs, order)

\* generateTreeLevelByLevel
TargetDepth(cfg) == cfg.MinDepth + Intn(SeedStream(cfg.seed), 0, cfg.MaxDepth - cfg.MinDepth + 1)

RECURSIVE SeedLevels(_, _, _, _, _, _)
SeedLevels(st, cfg, level, depth, probs, order) ==
    IF level > depth \/ ParentsAt(st.prim, level - 1) = <<>> THEN st
    ELSE SeedLevels(SeedParents(st, cfg, ParentsAt(st.prim, level - 1), level, probs, order),
                    cfg, level + 1, depth, probs, order)

\* Seed(): the tables the bulk seeder leaves when every queued write commits
SeededDB(cfg, rootID, probs, order) ==
    LET st == SeedLevels(SeedStart(rootID), cfg, 1, TargetDepth(cfg), probs, order)
    IN  [t \in Tables |-> IF t = PrimaryTable
                           THEN {st.prim[i] : i \in DOMAIN st.prim}
                           ELSE {x[2] : x \in {y \in st.sec : y[1] = t}}]

----------------------------------------------------------------------------
(* The client at rest *)

Callers == {"c1"}

\* A caller outside list_children
IdleCall ==
    [pc |-> "idle", table |-> "", folder |-> <<>>, foldersOnly |-> FALSE,
     path |-> "", level |-> 0, childSeed |-> NoSeed, pmap |-> EmptyMap,
     children |-> <<>>, ok |-> FALSE, items |-> <<>>,
     repeat |-> FALSE, extra |-> FALSE]

\* The generator part of the state when no client exists
GIdle ==
    /\ open = FALSE
    /\ dstProb = [t \in SecondaryNames |-> 0]
    /\ nodeCache = [x \in {} |-> 0]
    /\ call = [c \in Callers |-> IdleCall]
    /\ first = [x \in {} |-> 0]
    /\ ncalls = 0
    /\ nclears = 0
    /\ nopens = 0
    /\ dropped = FALSE

\* The queue-process part of the state when SpecQueue's processes do not run
QIdle ==
    /\ txlog = <<>>
    /\ pc = [p \in {} |-> ""]
    /\ hand = [p \in {} |-> <<>>]
    /\ added = {}
    /\ enqueued = {}
    /\ nextOp = 0
    /\ current = [p \in {} |-> 0]
    /\ mustSee = [p \in {} |-> {}]
    /\ seen = [p \in {} |-> {}]
    /\ reads = 0

\* The twin part of the state outside SpecTwin
TIdle ==
    /\ twin = <<>>
    /\ tmode = ""
    /\ eager = <<>>

\* TableManager after NewTableManager, before a client holds it
ClosedTM == [open |-> FALSE, config |-> <<>>, tableIDMap |-> <<>>, tableNameMap |-> <<>>]

\* No database file
NoDatabase == [state |-> "none", lookup |-> <<>>]

VIdle ==
    /\ config = <<>>
    /\ vdb = NoDatabase
    /\ tm = ClosedTM
    /\ vres = <<>>
    /\ nids = 0
    /\ viewsSeen = {}

qidle == <<txlog, pc, hand, added, enqueued, nextOp, current, mustSee, seen, reads>>

----------------------------------------------------------------------------
(* SpecGen: the SDK client over an initialized or bulk-seeded database.     *)
(* The timers fire often enough that no enqueue finds flush_interval        *)
(* elapsed: QueueWrite flushes (and loses its batches) on batch_size only;  *)
(* its timed path is SpecQueue's.                                           *)

\* dst_prob of the secondary tables, in percent
ProbChoices == {[A |-> 100, B |-> 0], [A |-> 50, B |-> 50]}

\* The orders in which a range over the secondaryConfigs map may yield the tables
DrawOrders == Orders(SecondaryNames)

\* The root id uuid.New() gave when the database of SpecGen was created
GenRootID == <<901>>

CachedNodeData(seed, emap) == [ChildSeed |-> seed, ExistenceMap |-> emap]

\* LoadSeedsFromDatabase(primary): seed and existence map of every row that
\* has a child_seed (primary rows always carry a map)
LoadPrimary(rows) ==
    LET sel == {r \in rows : r.child_seed # NoSeed /\ r.has_map}
    IN  [id \in RowIds(sel) |->
            LET r == CHOOSE x \in sel : x.id = id
            IN  CachedNodeData(r.child_seed, FromJSON(r.emap))]

\* LoadSeedsFromDatabase(secondary): the seed and an empty existence map
LoadSecondary(rows) ==
    LET sel == {r \in rows : r.child_seed # NoSeed}
    IN  [id \in RowIds(sel) |->
            CachedNodeData((CHOOSE x \in sel : x.id = id).child_seed, EmptyMap)]

RECURSIVE LoadSecondaries(_, _, _)
LoadSecondaries(cache, tables, names) ==
    IF names = <<>> THEN cache
    ELSE LoadSecondaries(LoadSecondary(tables[Head(names)]) @@ cache, tables, Tail(names))

\* NewGhostFSClientWithDB: every table in GetTableNames order, primary first
LoadSeedsFromDatabase(tables) ==
    LoadSecondaries(LoadPrimary(tables[PrimaryTable]), tables, SecondaryOrder)

\* Does this run of QueueWrite calls make some Flush hand back (and lose) batches?
RECURSIVE Drops(_, _)
Drops(wqs, writes) ==
    IF writes = <<>> THEN FALSE
    ELSE LET t == Head(writes)[1]
             q == Head(writes)[2]
         IN  \/ t \in DOMAIN wqs
                /\ ShouldFlush(Add(wqs[t], "", WriteOp("", q, "insert")), FALSE).flush
             \/ Drops(QueueWrites(wqs, <<Head(writes)>>), Tail(writes))

\* NewGhostFSClientWithDB
OpenClient ==
    /\ ~open /\ nopens < MaxOpens
    /\ open' = TRUE
    /\ nopens' = nopens + 1
    /\ nodeCache' = LoadSeedsFromDatabase(db)
    /\ wq' = [t \in Tables |-> NewWriteQueue(GenBatchSize)]
    /\ UNCHANGED <<db, dstProb, call, first, ncalls, nclears, dropped>>
    /\ UNCHANGED qidle
    /\ UNCHANGED tvars
    /\ UNCHANGED vvars

\* Flush(force) and batchExecute of what it returns, for one table
FlushTable(rows, w) ==
    {[w |-> [o.w EXCEPT !.isWriting = FALSE],
      rows |-> IF o.batches = <<>> THEN rows ELSE batchExecute(rows, o.batches[1]).rows]
     : o \in flushNodeQueue(ShouldFlush(w, TRUE).w)}

\* GhostFSClient.Close -> DB.Close: flushWriteQueue(force) on every queue.
\* (The last session of a behaviour stays open.)
CloseClient ==
    /\ open /\ \A c \in Callers : call[c].pc = "idle"
    /\ nopens < MaxOpens
    /\ open' = FALSE
    /\ \E f \in [Tables -> UNION {FlushTable(db[t], wq[t]) : t \in Tables}] :
          /\ \A t \in Tables : f[t] \in FlushTable(db[t], wq[t])
          /\ db' = [t \in Tables |-> f[t].rows]
          /\ wq' = [t \in Tables |-> f[t].w]
    /\ UNCHANGED <<dstProb, nodeCache, call, first, ncalls, nclears, nopens, dropped>>
    /\ UNCHANGED qidle
    /\ UNCHANGED tvars
    /\ UNCHANGED vvars

\* GhostFSClient.ClearCache
ClearCache ==
    /\ open /\ nclears < MaxClears /\ DOMAIN nodeCache # {}
    /\ nclears' = nclears + 1
    /\ nodeCache' = [x \in {} |-> 0]
    /\ UNCHANGED <<wq, db, open, dstProb, call, first, ncalls, nopens, dropped>>
    /\ UNCHANGED qidle
    /\ UNCHANGED tvars
    /\ UNCHANGED vvars

\* startQueueListener of one table: the timer fires, flushWriteQueue(force)
TimerFlush(t) ==
    /\ open /\ DOMAIN wq[t].queue # {}
    /\ \E o \in FlushTable(db[t], wq[t]) :
          /\ db' = [db EXCEPT ![t] = o.rows]
          /\ wq' = [wq EXCEPT ![t] = o.w]
    /\ UNCHANGED gvars
    /\ UNCHANGED qidle
    /\ UNCHANGED tvars
    /\ UNCHANGED vvars

\* Ids of the folders among the items a successful call returned
ReturnedFolders(c) ==
    IF call[c].ok
    THEN {call[c].items[i].ID :
            i \in {j \in DOMAIN call[c].items :
                      /\ call[c].items[j].Type = "folder"
                      /\ call[c].items[j].Level < MaxLevel}}
    ELSE {}

\* Folders a caller may name: the folder rows of any table and the folders its
\* last call returned, above the deepest level of the model
FolderIds ==
    {r.id : r \in {x \in UNION {db[t] : t \in Tables} : x.type = "folder" /\ x.level < MaxLevel}}
        \cup UNION {ReturnedFolders(c) : c \in Callers}

Args(c) == <<call[c].table, call[c].folder, call[c].foldersOnly>>

\* The call returns an error
Fail(c, t, f, fo, err) ==
    [IdleCall EXCEPT !.table = t, !.folder = f, !.foldersOnly = fo, !.items = <<err>>]

\* A table id that is in neither the TableManager's map nor table_id_lookup
UnknownView == "unknown"

\* GetFolderInfo with its error dropped: a missing row reads as a zero Node
GetFolderInfoUnchecked(tables, folderID, tableName) ==
    LET rows == {r \in tables[tableName] : r.id = folderID}
    IN  IF rows = {} THEN [err |-> "", path |-> "", level |-> 0]
        ELSE [err |-> "", path |-> (CHOOSE x \in rows : TRUE).path,
              level |-> (CHOOSE x \in rows : TRUE).level]

\* GetFolderInfo: the row of the folder in the table (QueryRow, no flush of
\* the queue), or an error when there is none
GetFolderInfo(tables, folderID, tableName) ==
    LET rows == {r \in tables[tableName] : r.id = folderID}
    IN  IF rows = {} THEN [err |-> "get folder info", path |-> "", level |-> 0]
        ELSE [err |-> "", path |-> (CHOOSE x \in rows : TRUE).path,
              level |-> (CHOOSE x \in rows : TRUE).level]

\* Ids of the file rows of any table, above the deepest level of the model
FileIds ==
    {r.id : r \in {x \in UNION {db[t] : t \in Tables} : x.type = "file" /\ x.level < MaxLevel}}

\* ListItems, first steps, on one of the given ids: the table id is
\* resolved, then GetFolderInfo
ListStartOn(c, ids) ==
    /\ open /\ call[c].pc = "idle" /\ ncalls < MaxCalls
    /\ ncalls' = ncalls + 1
    /\ \E t \in Tables \cup {UnknownView}, f \in ids, fo \in BOOLEAN :
          IF t = UnknownView
          THEN call' = [call EXCEPT ![c] = Fail(c, t, f, fo, "invalid table_id")]
          ELSE LET info == GetFolderInfo(db, f, t)
                   a == <<t, f, fo>>
               IN  call' = [call EXCEPT ![c] =
                       IF info.err # "" THEN Fail(c, t, f, fo, info.err)
                       ELSE [IdleCall EXCEPT !.pc = "seed", !.table = t, !.folder = f,
                                 !.foldersOnly = fo, !.path = info.path, !.level = info.level,
                                 !.repeat = /\ a \in DOMAIN first
                                            /\ \A w \in first[a].writes : w[2] \in RowIds(db[w[1]])]]
    /\ UNCHANGED <<wq, db, open, dstProb, nodeCache, first, nclears, nopens, dropped>>
    /\ UNCHANGED qidle
    /\ UNCHANGED tvars
    /\ UNCHANGED vvars

\* ListItems on the id of a folder
ListStart(c) == ListStartOn(c, FolderIds)

\* ListItems on the id of a file row
ListFile(c) == ListStartOn(c, FileIds)

UpdateSeed(id, seed) == [kind |-> "update_seed", id |-> id, seed |-> seed]
UpdateChecked(id) == [kind |-> "update_checked", id |-> id]

\* getOrCreateChildSeed over a cache and the tables: the error (or ""), the
\* seed, the cache afterwards and the QueueWrite calls made.  order is the
\* order of the draws of determineSecondaryExistence.
getOrCreateChildSeed(cache, tables, probs, folderID, tableName, order) ==
    LET rows == {r \in tables[tableName] : r.id = folderID /\ r.child_seed # NoSeed}
        r == CHOOSE x \in rows : TRUE
        newSeed == generateDeterministicSeed(Config.seed, folderID)
    IN  IF folderID \in DOMAIN cache
        THEN [err |-> "", seed |-> cache[folderID].ChildSeed, cache |-> cache, writes |-> <<>>]
        ELSE IF rows # {}
        THEN \* found in the database: getExistenceMapFromDB on the same table
             IF r.has_map
             THEN [err |-> "", seed |-> r.child_seed, writes |-> <<>>,
                   cache |-> (folderID :> CachedNodeData(r.child_seed, FromJSON(r.emap)))
                             @@ cache]
             ELSE [err |-> "get existence map", seed |-> NoSeed, cache |-> cache,
                   writes |-> <<>>]
        ELSE \* a new seed, an existence map drawn from it, UPDATE queued
             [err |-> "", seed |-> newSeed,
              writes |-> <<<<tableName, UpdateSeed(folderID, newSeed)>>>>,
              cache |-> (folderID :> CachedNodeData(newSeed,
                             determineSecondaryExistence(newSeed, probs, order)))
                        @@ cache]

\* getOrCreateParentExistenceMap: on a cache miss the map of the primary row,
\* cached with the placeholder seed 0
getOrCreateParentExistenceMap(cache, tables, folderID) ==
    LET rows == {r \in tables[PrimaryTable] : r.id = folderID /\ r.has_map}
        r == CHOOSE x \in rows : TRUE
    IN  IF folderID \in DOMAIN cache
        THEN [err |-> "", emap |-> cache[folderID].ExistenceMap, cache |-> cache]
        ELSE IF rows # {}
        THEN [err |-> "", emap |-> FromJSON(r.emap),
              cache |-> (folderID :> CachedNodeData(PlaceholderSeed, FromJSON(r.emap)))
                        @@ cache]
        ELSE [err |-> "get parent existence map", emap |-> EmptyMap, cache |-> cache]

\* GenerateChildren, step getOrCreateChildSeed
ListSeed(c) ==
    /\ call[c].pc = "seed"
    /\ \E order \in DrawOrders :
          LET r == getOrCreateChildSeed(nodeCache, db, dstProb, call[c].folder,
                                        call[c].table, order)
          IN  /\ nodeCache' = r.cache
              /\ wq' = QueueWrites(wq, r.writes)
              /\ dropped' = (dropped \/ Drops(wq, r.writes))
              /\ call' = [call EXCEPT ![c] =
                     IF r.err # ""
                     THEN Fail(c, call[c].table, call[c].folder, call[c].foldersOnly, r.err)
                     ELSE [call[c] EXCEPT !.pc = "emap", !.childSeed = r.seed]]
    /\ UNCHANGED <<db, open, dstProb, first, ncalls, nclears, nopens>>
    /\ UNCHANGED qidle
    /\ UNCHANGED tvars
    /\ UNCHANGED vvars

\* GenerateChildren, step getOrCreateParentExistenceMap, then the children
\* drawn from the child seed
ListEmap(c) ==
    /\ call[c].pc = "emap"
    /\ LET r == getOrCreateParentExistenceMap(nodeCache, db, call[c].folder)
       IN  /\ nodeCache' = r.cache
           /\ call' = [call EXCEPT ![c] =
                  IF r.err # ""
                  THEN Fail(c, call[c].table, call[c].folder, call[c].foldersOnly, r.err)
                  ELSE [call[c] EXCEPT
                           !.pc = "store", !.pmap = r.emap,
                           !.children = GenerateChildrenList(Config, call[c].folder,
                                            call[c].path, call[c].level,
                                            call[c].foldersOnly, call[c].childSeed)]]
    /\ UNCHANGED <<wq, db, open, dstProb, first, ncalls, nclears, nopens, dropped>>
    /\ UNCHANGED qidle
    /\ UNCHANGED tvars
    /\ UNCHANGED vvars

\* storeChildrenWithSeeds over the children from position i on: the QueueWrite
\* calls in order and the cache entries.  orders[i] is the order in which the
\* range over secondaryConfigs yields the tables for child i.
RECURSIVE StoreWrites(_, _, _, _, _, _)
StoreWrites(children, i, pmap, probs, orders, tableName) ==
    IF i > Len(children) THEN <<>>
    ELSE StoreChildWrites(Config.seed, children[i],
                          ChildExistenceMap(Config.seed, children[i], pmap, probs, orders[i]),
                          tableName)
         \o StoreWrites(children, i + 1, pmap, probs, orders, tableName)

StoreCache(children, pmap, probs, orders) ==
    [id \in {children[i].ID : i \in DOMAIN children} |->
        LET i == CHOOSE j \in DOMAIN children : children[j].ID = id
        IN  CachedNodeData(ChildSeedOf(Config.seed, children[i]),
                           ChildExistenceMap(Config.seed, children[i], pmap, probs, orders[i]))]

\* GenerateChildren, step storeChildrenWithSeeds; then ListItems marks the
\* folder accessed and answers
ListStore(c) ==
    /\ call[c].pc = "store"
    /\ \E orders \in [DOMAIN call[c].children -> DrawOrders] :
          LET t == call[c].table
              kids == call[c].children
              ws == StoreWrites(kids, 1, call[c].pmap, dstProb, orders, t)
              all == ws \o <<<<t, UpdateChecked(call[c].folder)>>>>
              targets == {<<ws[i][1], ws[i][2].row.id>> : i \in DOMAIN ws}
          IN  /\ wq' = QueueWrites(wq, all)
              /\ dropped' = (dropped \/ Drops(wq, all))
              /\ nodeCache' = StoreCache(kids, call[c].pmap, dstProb, orders) @@ nodeCache
              /\ call' = [call EXCEPT ![c] =
                     [IdleCall EXCEPT !.table = t, !.folder = call[c].folder,
                          !.foldersOnly = call[c].foldersOnly, !.ok = TRUE, !.items = kids,
                          !.repeat = call[c].repeat,
                          !.extra = call[c].repeat /\
                                    \E w \in targets : w[2] \notin RowIds(db[w[1]])]]
              /\ first' = IF Args(c) \in DOMAIN first THEN first
                          ELSE (Args(c) :> [items |-> kids, writes |-> targets]) @@ first
    /\ UNCHANGED <<db, open, dstProb, ncalls, nclears, nopens>>
    /\ UNCHANGED qidle
    /\ UNCHANGED tvars
    /\ UNCHANGED vvars

\* The configuration of SpecTwin: a tree of depth 2 to 3
TwinConfig == [Config EXCEPT !.MinDepth = 2, !.MaxDepth = 3]

\* A run of QueueWrite calls, all committed
RECURSIVE ApplyWrites(_, _)
ApplyWrites(tables, writes) ==
    IF writes = <<>> THEN tables
    ELSE ApplyWrites([tables EXCEPT ![Head(writes)[1]] =
                          ExecStatement(@, Head(writes)[2]).rows],
                     Tail(writes))

\* A client over the tables: the start-up load
ClientOver(tables) == [db |-> tables, cache |-> LoadSeedsFromDatabase(tables)]

\* ListItems on one side, start to end, for the primary row at a path
ListItemsAt(S, probs, path, foldersOnly, order) ==
    LET rows == {r \in S.db[PrimaryTable] : r.path = path /\ r.type = "folder"}
        f    == CHOOSE x \in rows : TRUE
        r1   == getOrCreateChildSeed(S.cache, S.db, probs, f.id, PrimaryTable, order)
        r2   == getOrCreateParentExistenceMap(r1.cache, S.db, f.id)
        kids == GenerateChildrenList(TwinConfig, f.id, f.path, f.level, foldersOnly, r1.seed)
        ords == [i \in DOMAIN kids |-> order]
        ws   == r1.writes \o StoreWrites(kids, 1, r2.emap, probs, ords, PrimaryTable)
                \o <<<<PrimaryTable, UpdateChecked(f.id)>>>>
    IN  IF rows = {} \/ r1.err # "" \/ r2.err # "" THEN S
        ELSE [db |-> ApplyWrites(S.db, ws),
              cache |-> StoreCache(kids, r2.emap, probs, ords) @@ r2.cache]

\* A database an earlier session has worked on: init_db, then a client that
\* listed / and /folder_0 through the primary view and was closed, with
\* every write it queued committed.
UsedDB(rootID, probs, order) ==
    LET S0 == ClientOver(InitDB(rootID, Config.seed))
        S1 == ListItemsAt(S0, probs, "/", FALSE, order)
    IN  ListItemsAt(S1, probs, "/folder_0", FALSE, order).db

GInit ==
    /\ QIdle
    /\ \E pr \in ProbChoices, kind \in {"fresh", "bulk", "used"}, order \in DrawOrders :
          /\ dstProb = pr
          /\ db = CASE kind = "bulk" -> SeededDB(Config, GenRootID, pr, order)
                     [] kind = "used" -> UsedDB(GenRootID, pr, order)
                     [] OTHER -> InitDB(GenRootID, Config.seed)
    /\ wq = [t \in Tables |-> NewWriteQueue(GenBatchSize)]
    /\ open = FALSE
    /\ nodeCache = [x \in {} |-> 0]
    /\ call = [c \in Callers |-> IdleCall]
    /\ first = [x \in {} |-> 0]
    /\ ncalls = 0
    /\ nclears = 0
    /\ nopens = 0
    /\ dropped = FALSE
    /\ TIdle
    /\ VIdle

GNext ==
    \/ OpenClient
    \/ CloseClient
    \/ ClearCache
    \/ \E t \in Tables : TimerFlush(t)
    \/ \E c \in Callers : ListStart(c)
    \/ \E c \in Callers : ListSeed(c)
    \/ \E c \in Callers : ListEmap(c)
    \/ \E c \in Callers : ListStore(c)

SpecGen == GInit /\ [][GNext]_vars

----------------------------------------------------------------------------
(* SpecFiles: the client over a database that holds file rows, its caller   *)
(* passing the id of a file row to ListItems.                               *)

XInit == GInit /\ FileIds # {}

XNext ==
    \/ OpenClient
    \/ \E t \in Tables : TimerFlush(t)
    \/ \E c \in Callers : ListFile(c)
    \/ \E c \in Callers : ListSeed(c)
    \/ \E c \in Callers : ListEmap(c)
    \/ \E c \in Callers : ListStore(c)

SpecFiles == XInit /\ [][XNext]_vars

----------------------------------------------------------------------------
(* SpecPair: one client, two goroutines calling ListItems on the root at    *)
(* the same time, and the flushes of the queues.                            *)

PairCallers == {"c1", "c2"}

PInit ==
    /\ QIdle
    /\ \E pr \in ProbChoices, kind \in {"fresh", "used"}, order \in DrawOrders :
          /\ dstProb = pr
          /\ db = IF kind = "used" THEN UsedDB(GenRootID, pr, order)
                  ELSE InitDB(GenRootID, Config.seed)
    /\ wq = [t \in Tables |-> NewWriteQueue(GenBatchSize)]
    /\ open = FALSE
    /\ nodeCache = [x \in {} |-> 0]
    /\ call = [c \in PairCallers |-> IdleCall]
    /\ first = [x \in {} |-> 0]
    /\ ncalls = 0
    /\ nclears = 0
    /\ nopens = 0
    /\ dropped = FALSE
    /\ TIdle
    /\ VIdle

\* ListItems on the root
ListRoot(c) == ListStartOn(c, {GenRootID})

PNext ==
    \/ OpenClient
    \/ \E t \in Tables : TimerFlush(t)
    \/ \E c \in PairCallers : ListRoot(c)
    \/ \E c \in PairCallers : ListSeed(c)
    \/ \E c \in PairCallers : ListEmap(c)
    \/ \E c \in PairCallers : ListStore(c)

SpecPair == PInit /\ [][PNext]_vars

----------------------------------------------------------------------------
(* SpecQueue: one queue, its writers, its timed flusher and its readers *)

Writers == {"w1", "w2"}
Timer == "timer"
Readers == {"r1"}
Forcers == {"f1"}        \* goroutines calling DB.ForceFlushTable
Closer == "closer"       \* the goroutine calling DB.Close
QProcs == Writers \cup {Timer} \cup Readers \cup Forcers \cup {Closer}

\* db.cancel() and conn.Close() have run
ConnClosed == pc[Closer] = "closed"
QTable == PrimaryTable

\* The k-th operation a writer hands to QueueWrite: the INSERT of row k.
OpRow(k) == MkRow(<<k>>, <<>>, "op", "/op", "file", 0, 1, FALSE, <<>>, NoSeed)
InsertOp(k) == WriteOp("", [kind |-> "insert", row |-> OpRow(k)], "insert")

\* The queue and its goroutines at rest over a table that holds the given rows
QInitOver(rows) ==
    /\ wq = [t \in Tables |-> NewWriteQueue(BatchSize)]
    /\ db = [t \in Tables |-> IF t = QTable THEN rows ELSE {}]
    /\ txlog = <<>>
    /\ pc = [p \in QProcs |-> "idle"]
    /\ hand = [p \in QProcs |-> <<>>]
    /\ added = {}
    /\ enqueued = {}
    /\ nextOp = 1
    /\ current = [p \in Writers |-> 0]
    /\ mustSee = [p \in Readers \cup Forcers \cup {Closer} |-> {}]
    /\ seen = [p \in Readers |-> {}]
    /\ reads = 0
    /\ GIdle
    /\ TIdle
    /\ VIdle

QInit == QInitOver({})

\* DB.QueueWrite, first half: wq.Add
QueueWriteAdd(p) ==
    /\ p \in Writers /\ pc[p] = "idle" /\ nextOp <= NumOps
    /\ wq' = [wq EXCEPT ![QTable] = Add(@, "", InsertOp(nextOp))]
    /\ added' = added \cup {nextOp}
    /\ current' = [current EXCEPT ![p] = nextOp]
    /\ nextOp' = nextOp + 1
    /\ pc' = [pc EXCEPT ![p] = "should"]
    /\ UNCHANGED <<db, txlog, hand, enqueued, mustSee, seen, reads>>
    /\ UNCHANGED gvars
    /\ UNCHANGED tvars
    /\ UNCHANGED vvars

\* DB.QueueWrite, second half: wq.Flush() without force, step ShouldFlush
QueueWriteShould(p) ==
    /\ p \in Writers /\ pc[p] = "should"
    /\ LET r == ShouldFlush(wq[QTable], FALSE)
       IN  /\ wq' = [wq EXCEPT ![QTable] = r.w]
           /\ pc' = [pc EXCEPT ![p] = IF r.flush THEN "snap" ELSE "idle"]
           /\ enqueued' = IF r.flush THEN enqueued ELSE enqueued \cup {current[p]}
    /\ UNCHANGED <<db, txlog, hand, added, nextOp, current, mustSee, seen, reads>>
    /\ UNCHANGED gvars
    /\ UNCHANGED tvars
    /\ UNCHANGED vvars

\* WriteQueue.Flush, step flushNodeQueue (any caller)
FlushSnapshot(p) ==
    /\ pc[p] = "snap"
    /\ \E o \in flushNodeQueue(wq[QTable]) :
          /\ wq' = [wq EXCEPT ![QTable] = o.w]
          /\ hand' = [hand EXCEPT ![p] = o.batches]
    /\ pc' = [pc EXCEPT ![p] = "reset"]
    /\ UNCHANGED <<db, txlog, added, enqueued, nextOp, current, mustSee, seen, reads>>
    /\ UNCHANGED gvars
    /\ UNCHANGED tvars
    /\ UNCHANGED vvars

\* WriteQueue.Flush, last step: isWriting = false, return the batches.
\* DB.QueueWrite ignores what Flush returns; flushWriteQueue executes it.
FlushReset(p) ==
    /\ pc[p] = "reset"
    /\ wq' = [wq EXCEPT ![QTable].isWriting = FALSE]
    /\ IF p \in Writers
       THEN /\ hand' = [hand EXCEPT ![p] = <<>>]
            /\ pc' = [pc EXCEPT ![p] = "idle"]
            /\ enqueued' = enqueued \cup {current[p]}
       ELSE /\ hand' = hand
            /\ pc' = [pc EXCEPT ![p] = IF p \in Forcers /\ hand[p] = <<>>
                                       THEN "forced" ELSE "exec"]
            /\ enqueued' = enqueued
    /\ UNCHANGED <<db, txlog, added, nextOp, current, mustSee, seen, reads>>
    /\ UNCHANGED gvars
    /\ UNCHANGED tvars
    /\ UNCHANGED vvars

AfterFlush(p) ==
    CASE p \in Readers -> "query"
      [] p \in Forcers -> "force"
      [] p = Closer -> "cancel"
      [] OTHER -> "idle"

\* DB.flushWriteQueue: batchExecute of the next batch, or the end of the loop
FlushExecute(p) ==
    /\ pc[p] = "exec"
    /\ IF hand[p] = <<>>
       THEN /\ pc' = [pc EXCEPT ![p] = AfterFlush(p)]
            /\ UNCHANGED <<db, txlog, hand>>
       ELSE LET r == batchExecute(db[QTable], Head(hand[p]))
            IN  /\ IF ConnClosed
                   THEN UNCHANGED <<db, txlog>>     \* conn.Begin fails
                   ELSE /\ db' = [db EXCEPT ![QTable] = r.rows]
                        /\ txlog' = Append(txlog, [table |-> QTable,
                                                    ops |-> Head(hand[p]),
                                                    committed |-> r.ok,
                                                    state |-> r.state])
                /\ hand' = [hand EXCEPT ![p] = Tail(@)]
                /\ pc' = pc
    /\ UNCHANGED <<wq, added, enqueued, nextOp, current, mustSee, seen, reads>>
    /\ UNCHANGED gvars
    /\ UNCHANGED tvars
    /\ UNCHANGED vvars

\* DB.startQueueListener: the timer fires and calls flushWriteQueue(force)
TimerFire ==
    /\ pc[Timer] = "idle" /\ ~ConnClosed
    /\ LET r == ShouldFlush(wq[QTable], TRUE)
       IN  /\ wq' = [wq EXCEPT ![QTable] = r.w]
           /\ pc' = [pc EXCEPT ![Timer] = IF r.flush THEN "snap" ELSE "idle"]
    /\ UNCHANGED <<db, txlog, hand, added, enqueued, nextOp, current, mustSee, seen, reads>>
    /\ UNCHANGED gvars
    /\ UNCHANGED tvars
    /\ UNCHANGED vvars

\* DB.Query: flushWriteQueue(force) on the table's queue ...
QueryStart(p) ==
    /\ p \in Readers /\ pc[p] = "idle" /\ reads < MaxReads
    /\ reads' = reads + 1
    /\ mustSee' = [mustSee EXCEPT ![p] = enqueued]
    /\ LET r == ShouldFlush(wq[QTable], TRUE)
       IN  /\ wq' = [wq EXCEPT ![QTable] = r.w]
           /\ pc' = [pc EXCEPT ![p] = IF r.flush THEN "snap" ELSE "query"]
    /\ UNCHANGED <<db, txlog, hand, added, enqueued, nextOp, current, seen>>
    /\ UNCHANGED gvars
    /\ UNCHANGED tvars
    /\ UNCHANGED vvars

\* ... then conn.QueryContext
QueryRead(p) ==
    /\ p \in Readers /\ pc[p] = "query"
    /\ seen' = [seen EXCEPT ![p] = db[QTable]]
    /\ pc' = [pc EXCEPT ![p] = "answered"]
    /\ UNCHANGED <<wq, db, txlog, hand, added, enqueued, nextOp, current, mustSee, reads>>
    /\ UNCHANGED gvars
    /\ UNCHANGED tvars
    /\ UNCHANGED vvars

QueryReturn(p) ==
    /\ p \in Readers /\ pc[p] = "answered"
    /\ pc' = [pc EXCEPT ![p] = "idle"]
    /\ UNCHANGED <<wq, db, txlog, hand, added, enqueued, nextOp, current, mustSee, seen, reads>>
    /\ UNCHANGED gvars
    /\ UNCHANGED tvars
    /\ UNCHANGED vvars

\* flush_interval passes since lastFlushed
Tick ==
    /\ ~wq[QTable].elapsed
    /\ wq' = [wq EXCEPT ![QTable].elapsed = TRUE]
    /\ UNCHANGED <<db, txlog, pc, hand, added, enqueued, nextOp, current, mustSee, seen, reads>>
    /\ UNCHANGED gvars
    /\ UNCHANGED tvars
    /\ UNCHANGED vvars

QNext ==
    \/ \E p \in Writers : QueueWriteAdd(p)
    \/ \E p \in Writers : QueueWriteShould(p)
    \/ \E p \in QProcs : FlushSnapshot(p)
    \/ \E p \in QProcs : FlushReset(p)
    \/ \E p \in QProcs : FlushExecute(p)
    \/ TimerFire
    \/ \E p \in Readers : QueryStart(p)
    \/ \E p \in Readers : QueryRead(p)
    \/ \E p \in Readers : QueryReturn(p)
    \/ Tick

SpecQueue == QInit /\ [][QNext]_vars

----------------------------------------------------------------------------
(* SpecShutdown: the queue with a ForceFlushTable caller and DB.Close *)

\* DB.ForceFlushTable is called
ForceStart(p) ==
    /\ p \in Forcers /\ pc[p] = "idle" /\ ~ConnClosed
    /\ mustSee' = [mustSee EXCEPT ![p] = enqueued]
    /\ pc' = [pc EXCEPT ![p] = "force"]
    /\ UNCHANGED <<wq, db, txlog, hand, added, enqueued, nextOp, current, seen, reads>>
    /\ UNCHANGED gvars
    /\ UNCHANGED tvars
    /\ UNCHANGED vvars

\* DB.ForceFlushTable, one turn of its loop: wq.Flush(true), step ShouldFlush.
\* A Flush that returns no batches ends the loop.
ForceFlush(p) ==
    /\ p \in Forcers /\ pc[p] = "force"
    /\ LET r == ShouldFlush(wq[QTable], TRUE)
       IN  /\ wq' = [wq EXCEPT ![QTable] = r.w]
           /\ pc' = [pc EXCEPT ![p] = IF r.flush THEN "snap" ELSE "forced"]
    /\ UNCHANGED <<db, txlog, hand, added, enqueued, nextOp, current, mustSee, seen, reads>>
    /\ UNCHANGED gvars
    /\ UNCHANGED tvars
    /\ UNCHANGED vvars

\* DB.Close: flushWriteQueue(force) on the queue ...
CloseStart ==
    /\ pc[Closer] = "idle"
    /\ mustSee' = [mustSee EXCEPT ![Closer] = enqueued]
    /\ LET r == ShouldFlush(wq[QTable], TRUE)
       IN  /\ wq' = [wq EXCEPT ![QTable] = r.w]
           /\ pc' = [pc EXCEPT ![Closer] = IF r.flush THEN "snap" ELSE "cancel"]
    /\ UNCHANGED <<db, txlog, hand, added, enqueued, nextOp, current, seen, reads>>
    /\ UNCHANGED gvars
    /\ UNCHANGED tvars
    /\ UNCHANGED vvars

\* ... then db.cancel() and conn.Close()
CloseConn ==
    /\ pc[Closer] = "cancel"
    /\ pc' = [pc EXCEPT ![Closer] = "closed"]
    /\ UNCHANGED <<wq, db, txlog, hand, added, enqueued, nextOp, current, mustSee, seen, reads>>
    /\ UNCHANGED gvars
    /\ UNCHANGED tvars
    /\ UNCHANGED vvars

\* Writers, the timed flusher and the steps of every Flush call
QCoreNext ==
    \/ \E p \in Writers : QueueWriteAdd(p)
    \/ \E p \in Writers : QueueWriteShould(p)
    \/ \E p \in QProcs : FlushSnapshot(p)
    \/ \E p \in QProcs : FlushReset(p)
    \/ \E p \in QProcs : FlushExecute(p)
    \/ TimerFire
    \/ Tick

ShutdownNext ==
    \/ QCoreNext
    \/ \E p \in Forcers : ForceStart(p)
    \/ \E p \in Forcers : ForceFlush(p)
    \/ CloseStart
    \/ CloseConn

SpecShutdown == QInit /\ [][ShutdownNext]_vars

----------------------------------------------------------------------------
(* SpecTimed: writers and the timed flusher under fair scheduling.  The     *)
(* listener goroutine keeps firing while the context is live, every Flush   *)
(* call and every QueueWrite call runs to its end.                          *)

TimedFairness ==
    /\ WF_vars(TimerFire)
    /\ \A p \in QProcs : WF_vars(FlushSnapshot(p) \/ FlushReset(p) \/ FlushExecute(p))
    /\ \A p \in Writers : WF_vars(QueueWriteShould(p))

SpecTimed == QInit /\ [][QCoreNext]_vars /\ TimedFairness

----------------------------------------------------------------------------
(* SpecFail: the queue over a table that already holds the row of operation *)
(* 1, so that the INSERT of operation 1 fails on its primary key.           *)

QFailInit == QInitOver({OpRow(1)})

SpecFail == QFailInit /\ [][QCoreNext]_vars

----------------------------------------------------------------------------
(* SpecTwin: two databases built side by side from the same configuration. *)
(* "init": init_db run twice, then the same list_children calls on both.    *)
(* "seed": the bulk seeder on side a, init_db and list_children on side b.  *)
(* Every queued write commits (no flush loses a batch) and each call is one *)
(* step.                                                                    *)

Sides == {"a", "b"}

\* The configuration of both sides; the seeder draws its depth from it
TwinDepth == TargetDepth(TwinConfig)

\* The tables the seeder has filled so far
SeederTables(st) ==
    [t \in Tables |-> IF t = PrimaryTable
                       THEN {st.prim[i] : i \in DOMAIN st.prim}
                       ELSE {x[2] : x \in {y \in st.sec : y[1] = t}}]

\* Folder paths a call may name on a side
ListablePaths(S) ==
    {r.path : r \in {x \in S.db[PrimaryTable] : x.type = "folder" /\ x.level < TwinDepth}}

TInit ==
    /\ QIdle
    /\ VIdle
    /\ wq = [t \in Tables |-> NewWriteQueue(GenBatchSize)]
    /\ db = [t \in Tables |-> {}]
    /\ open = FALSE
    /\ nodeCache = [x \in {} |-> 0]
    /\ call = [c \in Callers |-> IdleCall]
    /\ first = [x \in {} |-> 0]
    /\ ncalls = 0
    /\ nclears = 0
    /\ nopens = 0
    /\ dropped = FALSE
    /\ dstProb \in ProbChoices
    /\ tmode \in {"init", "seed"}
    /\ \E ra \in RandomUUIDs, rb \in RandomUUIDs :
          IF tmode = "init"
          THEN /\ twin = [s \in Sides |->
                            ClientOver(InitDB(IF s = "a" THEN ra ELSE rb, TwinConfig.seed))]
               /\ eager = [st |-> SeedStart(ra), level |-> 0, todo |-> <<>>, done |-> TRUE]
          ELSE /\ twin = [s \in Sides |->
                            IF s = "a" THEN ClientOver(SeederTables(SeedStart(ra)))
                            ELSE ClientOver(InitDB(rb, TwinConfig.seed))]
               /\ eager = [st |-> SeedStart(ra), level |-> 0, todo |-> <<>>, done |-> FALSE]

\* generateTreeLevelByLevel: the next level, its parents read from the
\* primary table; or the end of the loop
SeedNextLevel ==
    /\ tmode = "seed" /\ ~eager.done /\ eager.todo = <<>>
    /\ LET parents == ParentsAt(eager.st.prim, eager.level)
       IN  eager' = IF eager.level + 1 > TwinDepth \/ parents = <<>>
                    THEN [eager EXCEPT !.done = TRUE]
                    ELSE [eager EXCEPT !.level = @ + 1, !.todo = parents]
    /\ UNCHANGED <<twin, tmode>>
    /\ UNCHANGED <<wq, db>>
    /\ UNCHANGED gvars
    /\ UNCHANGED vvars
    /\ UNCHANGED qidle

\* generateChildrenForBatch: the children of the next parent, committed
SeedNextParent ==
    /\ tmode = "seed" /\ ~eager.done /\ eager.todo # <<>>
    /\ \E order \in DrawOrders :
          LET st == SeedParent(eager.st, TwinConfig, Head(eager.todo), eager.level,
                               dstProb, order)
          IN  /\ eager' = [eager EXCEPT !.st = st, !.todo = Tail(@)]
              /\ twin' = [twin EXCEPT !["a"].db = SeederTables(st)]
    /\ UNCHANGED tmode
    /\ UNCHANGED <<wq, db>>
    /\ UNCHANGED gvars
    /\ UNCHANGED vvars
    /\ UNCHANGED qidle

\* The same list_children(primary, folder at path, folders_only) on both
\* databases of "init"
TwinList ==
    /\ tmode = "init"
    /\ \E path \in ListablePaths(twin["a"]) \cup ListablePaths(twin["b"]),
          fo \in BOOLEAN, order \in DrawOrders :
          /\ twin' = [s \in Sides |-> ListItemsAt(twin[s], dstProb, path, fo, order)]
          /\ twin' # twin
    /\ UNCHANGED <<tmode, eager>>
    /\ UNCHANGED <<wq, db>>
    /\ UNCHANGED gvars
    /\ UNCHANGED vvars
    /\ UNCHANGED qidle

\* list_children(primary, folder at path, false) on the lazy side of "seed"
LazyList ==
    /\ tmode = "seed"
    /\ \E path \in ListablePaths(twin["b"]), order \in DrawOrders :
          /\ twin' = [twin EXCEPT !["b"] = ListItemsAt(@, dstProb, path, FALSE, order)]
          /\ twin' # twin
    /\ UNCHANGED <<tmode, eager>>
    /\ UNCHANGED <<wq, db>>
    /\ UNCHANGED gvars
    /\ UNCHANGED vvars
    /\ UNCHANGED qidle

TNext ==
    \/ SeedNextLevel
    \/ SeedNextParent
    \/ TwinList
    \/ LazyList

SpecTwin == TInit /\ [][TNext]_vars

----------------------------------------------------------------------------
(* SpecCommute: two clients, each opened over its own copy of a database an *)
(* earlier session worked on or the bulk seeder filled.  Side "a" lists folder F1 and then F2, side   *)
(* "b" lists F2 and then F1, both through the primary view.  eager holds    *)
(* the two paths, what each side has listed and what each call returned.    *)

\* What ListItems returns on a side for the primary row at a path
ListItemsReturn(S, probs, path, foldersOnly, order) ==
    LET rows == {r \in S.db[PrimaryTable] : r.path = path /\ r.type = "folder"}
        f    == CHOOSE x \in rows : TRUE
        r1   == getOrCreateChildSeed(S.cache, S.db, probs, f.id, PrimaryTable, order)
        r2   == getOrCreateParentExistenceMap(r1.cache, S.db, f.id)
    IN  IF rows = {} \/ r1.err # "" \/ r2.err # "" THEN <<"error">>
        ELSE GenerateChildrenList(TwinConfig, f.id, f.path, f.level, foldersOnly, r1.seed)

\* Paths of the folders of a side's primary table
FolderPaths(S) == {r.path : r \in {x \in S.db[PrimaryTable] : x.type = "folder"}}

\* The order in which a side lists the two folders
CallOrder(side) ==
    IF side = "a" THEN <<eager.F1, eager.F2>> ELSE <<eager.F2, eager.F1>>

CInit ==
    /\ QIdle
    /\ VIdle
    /\ wq = [t \in Tables |-> NewWriteQueue(GenBatchSize)]
    /\ db = [t \in Tables |-> {}]
    /\ open = FALSE
    /\ nodeCache = [x \in {} |-> 0]
    /\ call = [c \in Callers |-> IdleCall]
    /\ first = [x \in {} |-> 0]
    /\ ncalls = 0
    /\ nclears = 0
    /\ nopens = 0
    /\ dropped = FALSE
    /\ dstProb \in ProbChoices
    /\ tmode = "commute"
    /\ \E order \in DrawOrders, kind \in {"used", "bulk"} :
          twin = [s \in Sides |->
                    ClientOver(IF kind = "used" THEN UsedDB(GenRootID, dstProb, order)
                               ELSE SeededDB(TwinConfig, GenRootID, dstProb, order))]
    /\ \E p1, p2 \in FolderPaths(twin["a"]) :
          /\ p1 # p2
          /\ eager = [F1 |-> p1, F2 |-> p2,
                      done |-> [s \in Sides |-> 0],
                      ret |-> [s \in Sides |-> <<>>]]

\* The next ListItems call of a side
CommuteList(side) ==
    /\ tmode = "commute" /\ eager.done[side] < 2
    /\ \E order \in DrawOrders :
          LET path == CallOrder(side)[eager.done[side] + 1]
          IN  /\ twin' = [twin EXCEPT ![side] = ListItemsAt(@, dstProb, path, FALSE, order)]
              /\ eager' = [eager EXCEPT
                              !.done[side] = @ + 1,
                              !.ret[side] = Append(@, <<path,
                                    ListItemsReturn(twin[side], dstProb, path, FALSE, order)>>)]
    /\ UNCHANGED tmode
    /\ UNCHANGED <<wq, db>>
    /\ UNCHANGED gvars
    /\ UNCHANGED vvars
    /\ UNCHANGED qidle

CNext == \E side \in Sides : CommuteList(side)

SpecCommute == CInit /\ [][CNext]_vars

----------------------------------------------------------------------------
(* SpecChildren: the children GenerateChildren builds, for configurations   *)
(* with 0 <= min <= max <= MaxChildren (min = max among them) and for       *)
(* several child seeds.  eager holds the inputs and, once built, the list.  *)

\* Configurations with min <= max, as validateConfig admits them, child
\* counts up to MaxChildren
ChildConfigs ==
    {cfg \in {[Config EXCEPT !.MinChildFolders = a, !.MaxChildFolders = b,
                             !.MinChildFiles = c, !.MaxChildFiles = d] :
                 a \in 0..MaxChildren, b \in 0..MaxChildren,
                 c \in 0..MaxChildren, d \in 0..MaxChildren} :
        /\ cfg.MinChildFolders <= cfg.MaxChildFolders
        /\ cfg.MinChildFiles <= cfg.MaxChildFiles}

\* Child seeds a folder may carry: of the root, of a child of the root, and
\* the placeholder
ChildSeeds ==
    {generateDeterministicSeed(Config.seed, GenRootID),
     generateDeterministicSeed(Config.seed,
         generateDeterministicUUID(generateDeterministicSeed(Config.seed, GenRootID),
                                   FolderName(0))),
     PlaceholderSeed}

HInit ==
    /\ QIdle /\ GIdle /\ VIdle
    /\ wq = [t \in Tables |-> NewWriteQueue(GenBatchSize)]
    /\ db = [t \in Tables |-> {}]
    /\ twin = <<>>
    /\ tmode = "children"
    /\ \E cfg \in ChildConfigs, seed \in ChildSeeds, fo \in BOOLEAN :
          eager = [cfg |-> cfg, seed |-> seed, foldersOnly |-> fo,
                   done |-> FALSE, items |-> <<>>]

\* GenerateChildren up to the call of storeChildrenWithSeeds
BuildChildren ==
    /\ tmode = "children" /\ ~eager.done
    /\ eager' = [eager EXCEPT
                    !.done = TRUE,
                    !.items = GenerateChildrenList(eager.cfg, GenRootID, "/", 0,
                                                   eager.foldersOnly, eager.seed)]
    /\ UNCHANGED <<twin, tmode>>
    /\ UNCHANGED <<wq, db>>
    /\ UNCHANGED gvars
    /\ UNCHANGED vvars
    /\ UNCHANGED qidle

SpecChildren == HInit /\ [][BuildChildren]_vars

----------------------------------------------------------------------------
(* SpecBulk: Seed() from insertRootNode to the last ForceFlushTable, one    *)
(* QueueWrite, one ForceFlushTable and one page query per step, next to the *)
(* queue listener of the primary table, which runs step by step.  Only the  *)
(* primary table is followed: the parents of every level are read from it.  *)
(* eager is the seeder's frame: at (its position), level, last (the         *)
(* lastSeenRowID), st (position in the random stream, ids handed out),      *)
(* todo (the rows of the page still to be queued), visited (the parents     *)
(* taken so far), count (nodeCount of the level), completed (seed_info).    *)

\* The configurations seeded: depth 1 or 2, one or two folders per folder
BulkConfigs == {[Config EXCEPT !.MinChildFolders = f, !.MaxDepth = 2] : f \in {1, 2}}

\* The primary table in rowid order: rows get their rowid as they commit
RECURSIVE RowsInOrder(_)
RowsInOrder(log) ==
    IF log = <<>> THEN <<>>
    ELSE (IF Head(log).committed
          THEN [i \in DOMAIN Head(log).ops |-> Head(log).ops[i].Query.row]
          ELSE <<>>) \o RowsInOrder(Tail(log))

\* SELECT ... WHERE level = ? AND type = 'folder' AND rowid > ? ORDER BY
\* rowid LIMIT ?: the rowids of one page
PageOf(rows, parentLevel, lastSeenRowID) ==
    LET hits == {i \in DOMAIN rows : /\ rows[i].level = parentLevel
                                     /\ rows[i].type = "folder"
                                     /\ i > lastSeenRowID}
        below(i) == Cardinality({j \in hits : j < i})
    IN  {i \in hits : below(i) < PageSize}

\* A set of rowids as the sequence the query returns
RECURSIVE Ascending(_)
Ascending(S) ==
    IF S = {} THEN <<>>
    ELSE LET m == CHOOSE x \in S : \A y \in S : x <= y
         IN  <<m>> \o Ascending(S \ {m})

\* wq.Flush(true) and the execution of its batches, as the seeder's calls of
\* flushWriteQueue and ForceFlushTable run them: nothing when the gate is
\* held, else the whole queue in one transaction
SeederFlush(w, rows, log) ==
    LET r == ShouldFlush(w, TRUE)
    IN  IF ~r.flush
        THEN {[w |-> w, rows |-> rows, log |-> log]}
        ELSE {[w |-> [o.w EXCEPT !.isWriting = FALSE],
               rows |-> IF o.batches = <<>> THEN rows
                        ELSE batchExecute(rows, o.batches[1]).rows,
               log |-> IF o.batches = <<>> THEN log
                       ELSE Append(log, [table |-> QTable, ops |-> o.batches[1],
                                         committed |-> batchExecute(rows, o.batches[1]).ok,
                                         state |-> batchExecute(rows, o.batches[1]).state])]
              : o \in flushNodeQueue(r.w)}

BInit ==
    /\ wq = [t \in Tables |-> NewWriteQueue(GenBatchSize)]
    /\ db = [t \in Tables |-> {}]
    /\ txlog = <<>>
    /\ pc = [p \in QProcs |-> "idle"]
    /\ hand = [p \in QProcs |-> <<>>]
    /\ added = {}
    /\ enqueued = {}
    /\ nextOp = 1
    /\ current = [p \in Writers |-> 0]
    /\ mustSee = [p \in Readers \cup Forcers \cup {Closer} |-> {}]
    /\ seen = [p \in Readers |-> {}]
    /\ reads = 0
    /\ GIdle /\ VIdle
    /\ twin = <<>>
    /\ tmode = "bulk"
    /\ \E cfg \in BulkConfigs, probs \in ProbChoices, order \in DrawOrders :
          eager = [cfg |-> cfg, probs |-> probs, order |-> order,
                   depth |-> TargetDepth(cfg), at |-> "root", level |-> 1,
                   last |-> 0, st |-> [pos |-> 1, n |-> 0], todo |-> <<>>,
                   pageLen |-> 0, visited |-> <<>>, count |-> 0,
                   completed |-> FALSE]

BulkStill ==
    /\ UNCHANGED <<twin, tmode>>
    /\ UNCHANGED <<pc, hand, added, enqueued, nextOp, current, mustSee, seen, reads>>
    /\ UNCHANGED gvars
    /\ UNCHANGED vvars

\* insertRootNode: QueueWrite of the root row
BulkRoot ==
    /\ tmode = "bulk" /\ eager.at = "root"
    /\ wq' = [wq EXCEPT ![QTable] =
                 QueueWrite(@, [kind |-> "insert", row |-> SeedStart(GenRootID).prim[1]])]
    /\ eager' = [eager EXCEPT !.at = "force"]
    /\ UNCHANGED <<db, txlog>>
    /\ BulkStill

\* ForceFlushTable of the primary table: after the root, at the start of a
\* level, and at the end of Seed()
BulkForce ==
    /\ tmode = "bulk" /\ eager.at \in {"force", "levelforce", "finalforce"}
    /\ \E o \in SeederFlush(wq[QTable], db[QTable], txlog) :
          /\ wq' = [wq EXCEPT ![QTable] = o.w]
          /\ db' = [db EXCEPT ![QTable] = o.rows]
          /\ txlog' = o.log
    /\ eager' = [eager EXCEPT !.at = CASE eager.at = "force" -> "level"
                                       [] eager.at = "levelforce" -> "page"
                                       [] OTHER -> "done"]
    /\ BulkStill

\* generateTreeLevelByLevel: the test of its loop
BulkLevel ==
    /\ tmode = "bulk" /\ eager.at = "level"
    /\ eager' = IF eager.level <= eager.depth
                THEN [eager EXCEPT !.at = "levelforce", !.last = 0, !.count = 0]
                ELSE [eager EXCEPT !.at = "complete"]
    /\ UNCHANGED <<wq, db, txlog>>
    /\ BulkStill

\* generateChildrenForLevelFromDB, one page: DB.Query (flushWriteQueue, then
\* the SELECT) and the children generateChildrenForBatch draws for it
BulkPage ==
    /\ tmode = "bulk" /\ eager.at = "page"
    /\ \E o \in SeederFlush(wq[QTable], db[QTable], txlog) :
          LET rows == RowsInOrder(o.log)
              page == PageOf(rows, eager.level - 1, eager.last)
              parents == [i \in DOMAIN Ascending(page) |-> rows[Ascending(page)[i]]]
              st2 == SeedParents([pos |-> eager.st.pos, n |-> eager.st.n,
                                  prim |-> <<>>, sec |-> {}],
                                 eager.cfg, parents, eager.level, eager.probs, eager.order)
          IN  /\ wq' = [wq EXCEPT ![QTable] = o.w]
              /\ db' = [db EXCEPT ![QTable] = o.rows]
              /\ txlog' = o.log
              /\ eager' = IF page = {}
                          THEN [eager EXCEPT !.at = "levelend"]
                          ELSE [eager EXCEPT
                                   !.at = "write",
                                   !.last = CHOOSE m \in page : \A y \in page : y <= m,
                                   !.st = [pos |-> st2.pos, n |-> st2.n],
                                   !.todo = st2.prim,
                                   !.pageLen = Len(parents),
                                   !.count = @ + Len(st2.prim),
                                   !.visited = @ \o [i \in DOMAIN parents |-> parents[i].id]]
    /\ BulkStill

\* generateChildrenForBatch: the next QueueWrite on the primary table, or
\* the end of the page
BulkWrite ==
    /\ tmode = "bulk" /\ eager.at = "write"
    /\ IF eager.todo = <<>>
       THEN /\ eager' = [eager EXCEPT !.at = IF eager.pageLen < PageSize
                                             THEN "levelend" ELSE "page"]
            /\ wq' = wq
       ELSE /\ wq' = [wq EXCEPT ![QTable] =
                         QueueWrite(@, [kind |-> "insert", row |-> Head(eager.todo)])]
            /\ eager' = [eager EXCEPT !.todo = Tail(@)]
    /\ UNCHANGED <<db, txlog>>
    /\ BulkStill

\* generateTreeLevelByLevel: a level that made no node ends the loop
BulkLevelEnd ==
    /\ tmode = "bulk" /\ eager.at = "levelend"
    /\ eager' = IF eager.count = 0
                THEN [eager EXCEPT !.at = "complete"]
                ELSE [eager EXCEPT !.at = "level", !.level = @ + 1]
    /\ UNCHANGED <<wq, db, txlog>>
    /\ BulkStill

\* MarkGenerationCompleted
BulkComplete ==
    /\ tmode = "bulk" /\ eager.at = "complete"
    /\ eager' = [eager EXCEPT !.at = "finalforce", !.completed = TRUE]
    /\ UNCHANGED <<wq, db, txlog>>
    /\ BulkStill

BNext ==
    \/ BulkRoot \/ BulkForce \/ BulkLevel \/ BulkPage \/ BulkWrite
    \/ BulkLevelEnd \/ BulkComplete
    \/ TimerFire
    \/ FlushSnapshot(Timer) \/ FlushReset(Timer) \/ FlushExecute(Timer)
    \/ Tick

SpecBulk == BInit /\ [][BNext]_vars

----------------------------------------------------------------------------
(* SpecViews: config.json, init_db, the client's open and close, and the    *)
(* table ids: those InitializeTableIDs keeps in memory and those            *)
(* table_id_lookup holds.  dst_prob is in percent.                          *)

\* Keys of the "secondary" object of config.json
SecondaryKeys == <<"d1", "d2">>

\* tables.TestConfig: a configuration that passes every check
ViewConfig ==
    [Primary |-> [TableName |-> PrimaryTable, MinChildFolders |-> 1, MaxChildFolders |-> 2,
                  MinChildFiles |-> 0, MaxChildFiles |-> 1, MinDepth |-> 1, MaxDepth |-> 1],
     Secondary |-> [k \in {"d1", "d2"} |->
                       [TableName |-> IF k = "d1" THEN "A" ELSE "B",
                        DstProb |-> IF k = "d1" THEN 70 ELSE 30]]]

\* Contents config.json may have: ViewConfig and one-field variations of it
ConfigChoices ==
    {ViewConfig}
    \cup {[ViewConfig EXCEPT !.Primary.MinChildFolders = v] : v \in {-1, 3}}
    \cup {[ViewConfig EXCEPT !.Primary.MinChildFiles = v] : v \in {-1, 2}}
    \cup {[ViewConfig EXCEPT !.Primary.MinDepth = v] : v \in {0, 2}}
    \cup {[ViewConfig EXCEPT !.Primary.TableName = v] : v \in {"", "A"}}
    \cup {[ViewConfig EXCEPT !.Secondary["d2"].TableName = v] : v \in {"", "A"}}
    \cup {[ViewConfig EXCEPT !.Secondary["d2"].DstProb = v] : v \in {-10, 150}}

\* validateConfig of the seeders: the ranges of the primary table, then the
\* names and probabilities of the secondary tables
validateConfig(cfg) ==
    LET p == cfg.Primary
    IN  IF p.MinChildFolders < 0 \/ p.MaxChildFolders < p.MinChildFolders
        THEN "invalid primary child folder range"
        ELSE IF p.MinChildFiles < 0 \/ p.MaxChildFiles < p.MinChildFiles
        THEN "invalid primary child file range"
        ELSE IF p.MinDepth < 1 \/ p.MaxDepth < p.MinDepth
        THEN "invalid primary depth range"
        ELSE IF \E k \in DOMAIN cfg.Secondary : cfg.Secondary[k].TableName = ""
        THEN "secondary table name cannot be empty"
        ELSE IF \E k \in DOMAIN cfg.Secondary :
                    cfg.Secondary[k].DstProb < 0 \/ cfg.Secondary[k].DstProb > 100
        THEN "invalid secondary table dst_prob"
        ELSE ""

\* TableManager.ValidateConfig: the table names and the probabilities
ValidateConfig(cfg) ==
    LET sec == cfg.Secondary
    IN  IF cfg.Primary.TableName = ""
        THEN "primary table name cannot be empty"
        ELSE IF \E k \in DOMAIN sec : sec[k].TableName = ""
        THEN "secondary table name cannot be empty"
        ELSE IF \E k \in DOMAIN sec : sec[k].TableName = cfg.Primary.TableName
        THEN "secondary table name cannot be the same as primary table name"
        ELSE IF \E k \in DOMAIN sec : sec[k].DstProb < 0 \/ sec[k].DstProb > 100
        THEN "secondary table dst_prob must be between 0.0 and 1.0"
        ELSE IF \E k, l \in DOMAIN sec : k # l /\ sec[k].TableName = sec[l].TableName
        THEN "duplicate table name"
        ELSE ""

\* GenerateTableID: uuid.New(), the n-th value it hands out
GenerateTableID(n) == <<"table-id", n>>

\* TableManager.GetTableNames: the primary name, then the secondary names
GetTableNames(cfg) ==
    <<cfg.Primary.TableName>>
    \o [i \in DOMAIN SecondaryKeys |-> cfg.Secondary[SecondaryKeys[i]].TableName]

\* InitializeTableIDs: both maps cleared, then a new id for every table
InitializeTableIDs(cfg, n) ==
    LET names == GetTableNames(cfg)
        ids == [i \in DOMAIN names |-> GenerateTableID(n + i)]
    IN  [tableIDMap |-> [id \in {ids[i] : i \in DOMAIN ids} |->
                           names[CHOOSE i \in DOMAIN ids : ids[i] = id]],
         tableNameMap |-> [nm \in {names[i] : i \in DOMAIN names} |->
                             ids[CHOOSE i \in DOMAIN names :
                                    /\ names[i] = nm
                                    /\ \A j \in DOMAIN names : names[j] = nm => j <= i]]]

\* TableManager.GetTableNameByID
GetTableNameByID(m, tableID) ==
    IF tableID \in DOMAIN m.tableIDMap
    THEN [name |-> m.tableIDMap[tableID], exists |-> TRUE]
    ELSE [name |-> "", exists |-> FALSE]

\* TableManager.GetTableIDByName
GetTableIDByName(m, tableName) ==
    IF tableName \in DOMAIN m.tableNameMap
    THEN [id |-> m.tableNameMap[tableName], exists |-> TRUE]
    ELSE [id |-> <<>>, exists |-> FALSE]

\* tables.GetTableName: SELECT table_name FROM table_id_lookup
GetTableName(lookup, tableID) ==
    IF tableID \in DOMAIN lookup
    THEN [name |-> lookup[tableID], err |-> ""]
    ELSE [name |-> "", err |-> "no rows"]

\* SaveTableMappingsToDB: one row of table_id_lookup per entry of tableIDMap
SaveTableMappingsToDB(m) == m.tableIDMap

\* ListItems and GetRoot, the resolution of the table id: the TableManager
\* first, table_id_lookup second
ResolveTableID(m, lookup, tableID) ==
    LET cached == GetTableNameByID(m, tableID)
        stored == GetTableName(lookup, tableID)
    IN  IF cached.exists THEN [name |-> cached.name, err |-> ""]
        ELSE IF stored.err = "" THEN [name |-> stored.name, err |-> ""]
        ELSE [name |-> "", err |-> "invalid table_id"]

\* core ListTables: the rows of table_id_lookup
ListTables(lookup) == {<<id, lookup[id]>> : id \in DOMAIN lookup}

TablesPerConfig == Len(SecondaryKeys) + 1

VInit ==
    /\ QIdle /\ GIdle /\ TIdle
    /\ wq = [t \in Tables |-> NewWriteQueue(GenBatchSize)]
    /\ db = [t \in Tables |-> {}]
    /\ config \in ConfigChoices
    /\ vdb = NoDatabase
    /\ tm = ClosedTM
    /\ vres = <<>>
    /\ nids = 0
    /\ viewsSeen = {}

VStill == UNCHANGED <<qvars, gvars, tvars>>

\* config.json is rewritten
EditConfig ==
    /\ \E cfg \in ConfigChoices \ {config} : config' = cfg
    /\ UNCHANGED <<vdb, tm, vres, nids, viewsSeen>>
    /\ VStill

\* seed.InitDB: validateConfig, the old database removed, ValidateConfig,
\* InitializeTableIDs, the tables, SaveTableMappingsToDB, seed_info, the roots
RunInitDB ==
    /\ ~tm.open /\ nids + TablesPerConfig <= MaxTableIDs
    /\ LET e1 == validateConfig(config)
           e2 == ValidateConfig(config)
           m == InitializeTableIDs(config, nids)
       IN  IF e1 # ""
           THEN /\ vres' = [op |-> "init_db", err |-> e1]
                /\ UNCHANGED <<vdb, nids, viewsSeen>>
           ELSE IF e2 # ""
           THEN /\ vres' = [op |-> "init_db", err |-> e2]
                /\ vdb' = [state |-> "empty", lookup |-> <<>>]
                /\ viewsSeen' = {}
                /\ UNCHANGED nids
           ELSE /\ vres' = [op |-> "init_db", err |-> ""]
                /\ vdb' = [state |-> "ready", lookup |-> SaveTableMappingsToDB(m)]
                /\ viewsSeen' = {}
                /\ nids' = nids + TablesPerConfig
    /\ UNCHANGED <<config, tm>>
    /\ VStill

\* NewGhostFSClientWithDB: NewDB, loadConfig, ValidateConfig,
\* InitializeTableIDs, getMasterSeed
OpenWithDB ==
    /\ ~tm.open /\ nids + TablesPerConfig <= MaxTableIDs
    /\ LET e == ValidateConfig(config)
           m == InitializeTableIDs(config, nids)
       IN  IF e # ""
           THEN /\ vres' = [op |-> "open", err |-> "invalid table configuration"]
                /\ UNCHANGED <<tm, nids>>
           ELSE IF vdb.state # "ready"
           THEN /\ vres' = [op |-> "open", err |-> "failed to get master seed"]
                /\ nids' = nids + TablesPerConfig
                /\ UNCHANGED tm
           ELSE /\ vres' = [op |-> "open", err |-> ""]
                /\ nids' = nids + TablesPerConfig
                /\ tm' = [open |-> TRUE, config |-> config,
                          tableIDMap |-> m.tableIDMap, tableNameMap |-> m.tableNameMap]
    /\ vdb' = IF vdb.state = "none" THEN [state |-> "empty", lookup |-> <<>>] ELSE vdb
    /\ UNCHANGED <<config, viewsSeen>>
    /\ VStill

\* GhostFSClient.Close
CloseViews ==
    /\ tm.open
    /\ tm' = ClosedTM
    /\ vres' = [op |-> "close", err |-> ""]
    /\ UNCHANGED <<config, vdb, nids, viewsSeen>>
    /\ VStill

\* GhostFSClient.ListTables
ListViews ==
    /\ tm.open
    /\ vres' = [op |-> "list_tables", err |-> "", tables |-> ListTables(vdb.lookup)]
    /\ viewsSeen' = viewsSeen \cup ListTables(vdb.lookup)
    /\ UNCHANGED <<config, vdb, tm, nids>>
    /\ VStill

\* The table ids a caller can hold: those of either map, and one of neither
KnownIDs == DOMAIN vdb.lookup \cup DOMAIN tm.tableIDMap \cup {<<UnknownView>>}

\* GhostFSClient.GetRoot or ListItems up to the resolution of the table id
ResolveView ==
    /\ tm.open
    /\ \E id \in KnownIDs :
          vres' = [op |-> "resolve", id |-> id,
                   name |-> ResolveTableID(tm, vdb.lookup, id).name,
                   err |-> ResolveTableID(tm, vdb.lookup, id).err]
    /\ UNCHANGED <<config, vdb, tm, nids, viewsSeen>>
    /\ VStill

VNext ==
    \/ EditConfig
    \/ RunInitDB
    \/ OpenWithDB
    \/ CloseViews
    \/ ListViews
    \/ ResolveView

SpecViews == VInit /\ [][VNext]_vars

----------------------------------------------------------------------------
(* SpecFlush: one WriteQueue (node mode) under concurrent calls of Add and  *)
(* Flush, at the granularity of its mutex.  hand[p] collects every batch    *)
(* the Flush calls of p have returned.                                      *)

PlainCallers == {"p1"}          \* call Flush() as DB.QueueWrite does
ForceCallers == {"t1", "t2"}    \* call Flush(true) as DB.flushWriteQueue does
FlushCallers == PlainCallers \cup ForceCallers

\* The k-th operation as DB.QueueWrite builds it
PlainOp(k) == InsertOp(k)

\* The k-th operation as DB.QueueWriteWithPath builds it
PathOp(k) == WriteOp("/op", [kind |-> "update_checked", id |-> <<k>>], "update")

FInit ==
    /\ wq = [t \in Tables |-> NewWriteQueue(BatchSize)]
    /\ db = [t \in Tables |-> {}]
    /\ txlog = <<>>
    /\ pc = [p \in FlushCallers |-> "idle"]
    /\ hand = [p \in FlushCallers |-> <<>>]
    /\ added = {}
    /\ enqueued = {}
    /\ nextOp = 1
    /\ current = [p \in {} |-> 0]
    /\ mustSee = [p \in {} |-> {}]
    /\ seen = [p \in {} |-> {}]
    /\ reads = 0
    /\ GIdle
    /\ TIdle
    /\ VIdle

FStill ==
    /\ UNCHANGED <<db, txlog, enqueued, current, mustSee, seen, reads>>
    /\ UNCHANGED <<gvars, tvars, vvars>>

\* WriteQueue.Add, called by QueueWrite or by QueueWriteWithPath
AddOp ==
    /\ nextOp <= NumOps
    /\ \E op \in {PlainOp(nextOp), PathOp(nextOp)} :
          /\ wq' = [wq EXCEPT ![QTable] = Add(@, op.Path, op)]
          /\ added' = added \cup {op}
    /\ nextOp' = nextOp + 1
    /\ UNCHANGED <<pc, hand>>
    /\ FStill

\* WriteQueue.Flush, step ShouldFlush; Flush returns nil when it is false
FlushShould(p) ==
    /\ pc[p] = "idle"
    /\ LET r == ShouldFlush(wq[QTable], p \in ForceCallers)
       IN  /\ wq' = [wq EXCEPT ![QTable] = r.w]
           /\ pc' = [pc EXCEPT ![p] = IF r.flush THEN "snap" ELSE "nil"]
    /\ UNCHANGED <<hand, added, nextOp>>
    /\ FStill

\* WriteQueue.Flush, step flushNodeQueue
FlushTake(p) ==
    /\ pc[p] = "snap"
    /\ \E o \in flushNodeQueue(wq[QTable]) :
          /\ wq' = [wq EXCEPT ![QTable] = o.w]
          /\ hand' = [hand EXCEPT ![p] = @ \o o.batches]
    /\ pc' = [pc EXCEPT ![p] = "reset"]
    /\ UNCHANGED <<added, nextOp>>
    /\ FStill

\* WriteQueue.Flush, last step: isWriting = false, the batches returned
FlushReturn(p) ==
    /\ pc[p] = "reset"
    /\ wq' = [wq EXCEPT ![QTable].isWriting = FALSE]
    /\ pc' = [pc EXCEPT ![p] = "idle"]
    /\ UNCHANGED <<hand, added, nextOp>>
    /\ FStill

\* The caller of a Flush that returned nil goes on
FlushNil(p) ==
    /\ pc[p] = "nil"
    /\ pc' = [pc EXCEPT ![p] = "idle"]
    /\ UNCHANGED <<wq, hand, added, nextOp>>
    /\ FStill

FNext ==
    \/ AddOp
    \/ \E p \in FlushCallers : FlushShould(p)
    \/ \E p \in FlushCallers : FlushTake(p)
    \/ \E p \in FlushCallers : FlushReturn(p)
    \/ \E p \in FlushCallers : FlushNil(p)
    \/ Tick

SpecFlush == FInit /\ [][FNext]_vars

----------------------------------------------------------------------------
(* SpecStore: the storeChildrenWithSeeds loop of one list_children call on  *)
(* the root through the primary table, one QueueWrite at a time, next to    *)
(* the timed flusher of that table.  No secondary table takes a row.        *)

Lister == "w1"

NoSecondary == [t \in SecondaryNames |-> 0]

\* The children GenerateChildren builds for the root
StoreChildren ==
    GenerateChildrenList(Config, GenRootID, "/", 0, FALSE,
                         generateDeterministicSeed(Config.seed, GenRootID))

\* The operations the loop hands to QueueWrite for the primary table, in order
StoreOps ==
    LET ws == StoreWrites(StoreChildren, 1, AllTrue, NoSecondary,
                          [i \in DOMAIN StoreChildren |-> SecondaryOrder], PrimaryTable)
        mine == SelectSeq(ws, LAMBDA w : w[1] = PrimaryTable)
    IN  [i \in DOMAIN mine |-> WriteOp("", mine[i][2], "insert")]

SInit ==
    /\ wq = [t \in Tables |-> NewWriteQueue(GenBatchSize)]
    /\ db = InitDB(GenRootID, Config.seed)
    /\ txlog = <<>>
    /\ pc = [p \in QProcs |-> "idle"]
    /\ hand = [p \in QProcs |-> <<>>]
    /\ added = {}
    /\ enqueued = {}
    /\ nextOp = 1
    /\ current = [p \in Writers |-> 0]
    /\ mustSee = [p \in Readers \cup Forcers \cup {Closer} |-> {}]
    /\ seen = [p \in Readers |-> {}]
    /\ reads = 0
    /\ GIdle
    /\ TIdle
    /\ VIdle

\* The loop's next QueueWrite, first half: wq.Add
StoreAdd ==
    /\ pc[Lister] = "idle" /\ nextOp <= Len(StoreOps)
    /\ wq' = [wq EXCEPT ![QTable] = Add(@, "", StoreOps[nextOp])]
    /\ added' = added \cup {nextOp}
    /\ current' = [current EXCEPT ![Lister] = nextOp]
    /\ nextOp' = nextOp + 1
    /\ pc' = [pc EXCEPT ![Lister] = "should"]
    /\ UNCHANGED <<db, txlog, hand, enqueued, mustSee, seen, reads>>
    /\ UNCHANGED gvars
    /\ UNCHANGED tvars
    /\ UNCHANGED vvars

SNext ==
    \/ StoreAdd
    \/ QueueWriteShould(Lister)
    \/ \E p \in {Lister, Timer} : FlushSnapshot(p)
    \/ \E p \in {Lister, Timer} : FlushReset(p)
    \/ FlushExecute(Timer)
    \/ TimerFire
    \/ Tick

SpecStore == SInit /\ [][SNext]_vars

----------------------------------------------------------------------------
(* Claims about the write pipeline *)

SeqCount(ops, op) == Cardinality({i \in DOMAIN ops : ops[i] = op})

RECURSIVE BatchesCount(_, _)
BatchesCount(batches, op) ==
    IF batches = <<>> THEN 0
    ELSE SeqCount(Head(batches), op) + BatchesCount(Tail(batches), op)

\* Copies of the operation still pending in the queue
PendingCount(op) ==
    LET q == wq[QTable].queue
    IN  SeqCount(Concat(q, CHOOSE o \in Orders(DOMAIN q) : TRUE), op)

\* Copies held by a Flush call that has taken its snapshot and not yet returned
\* or executed it
RECURSIVE InHandCount(_, _)
InHandCount(procs, op) ==
    IF procs = {} THEN 0
    ELSE LET p == CHOOSE x \in procs : TRUE
         IN  BatchesCount(hand[p], op) + InHandCount(procs \ {p}, op)

\* Transactions that executed the operation
ExecutedCount(op) == Cardinality({i \in DOMAIN txlog : SeqCount(txlog[i].ops, op) > 0})

\* C1: every operation handed to QueueWrite is pending, in the hands of the
\* flush that took it, or executed in exactly one transaction; none leaves the
\* queue unexecuted and none is executed twice.
C1_ExactlyOneTransaction ==
    \A k \in added :
        PendingCount(InsertOp(k)) + InHandCount(QProcs, InsertOp(k))
            + ExecutedCount(InsertOp(k)) = 1

\* C2: a Query returns the effect of every operation whose enqueue completed
\* before it started.
C2_ReadSeesEnqueued ==
    \A p \in Readers :
        pc[p] = "answered" => \A k \in mustSee[p] : OpRow(k) \in seen[p]

----------------------------------------------------------------------------
(* Claims about list_children and the views *)

\* No write is pending and no call is in flight
Drained ==
    /\ \A t \in Tables : DOMAIN wq[t].queue = {}
    /\ \A c \in Callers : call[c].pc = "idle"

SameNode(n, m) ==
    /\ n.id = m.id /\ n.name = m.name /\ n.path = m.path
    /\ n.size = m.size /\ n.type = m.type /\ n.level = m.level

\* C3: every list_children call that answers returns the list the first
\* answered call with the same view, folder and folders_only returned,
\* whatever happened in between (other calls, clear_cache, close and re-open).
C3_SameListEveryCall ==
    \A c \in Callers :
        (call[c].pc = "idle" /\ call[c].ok) =>
            /\ Args(c) \in DOMAIN first
            /\ call[c].items = first[Args(c)].items

\* C4: once the rows a first list_children call queued are committed, a call
\* with the same arguments queues no insert of a row its table does not hold
\* already, so that it adds no row to any table.
C4_RepeatAddsNoRow ==
    \A c \in Callers : ~call[c].extra

\* C5: with the queues drained, every non-root row of a secondary table has
\* its parent row in the same table.  (Stated for the runs in which no
\* QueueWrite lost an operation, so that a missing parent is not a lost insert.)
C5_ParentInSameView ==
    (Drained /\ ~dropped) =>
        \A v \in SecondaryNames : \A n \in db[v] :
            n.parent_id # <<>> => n.parent_id \in RowIds(db[v])

\* C6: with the queues drained, every row of a secondary table is in the
\* primary table with the same id, name, path, size, type and level.  (Stated
\* for the runs in which no QueueWrite lost an operation.)
C6_SecondaryRowInPrimary ==
    (Drained /\ ~dropped) =>
        \A v \in SecondaryNames : \A n \in db[v] :
            \E m \in db[PrimaryTable] : SameNode(n, m)

\* C7: the table of a secondary view with dst_prob = 0 holds the root and
\* nothing else, whatever views the calls went through.
C7_ZeroProbOnlyRoot ==
    \A v \in SecondaryNames :
        dstProb[v] = 0 => \A n \in db[v] : n.parent_id = <<>>

\* C8: with the queues drained, every row of the primary table is in the table
\* of every secondary view with dst_prob = 1.  (Stated for the runs in which no
\* QueueWrite lost an operation.)
C8_FullProbEveryNode ==
    (Drained /\ ~dropped) =>
        \A v \in SecondaryNames :
            dstProb[v] = 100 => RowIds(db[PrimaryTable]) \subseteq RowIds(db[v])

----------------------------------------------------------------------------
(* Claims about two databases *)

\* C9: two databases initialized independently with the same seed K > 0 and
\* expanded by the same list_children calls give every non-root node at a
\* path the same id, size and existence map.
C9_SameTreeInBoth ==
    tmode = "init" =>
        \A n \in twin["a"].db[PrimaryTable] : \A m \in twin["b"].db[PrimaryTable] :
            (n.parent_id # <<>> /\ n.path = m.path) =>
                (n.id = m.id /\ n.size = m.size /\ n.emap = m.emap)

\* What a primary row is without its timestamps and its checked flag
\* (and, beyond the claim, without its seed and existence map)
RowCore(r) ==
    [id |-> r.id, parent_id |-> r.parent_id, name |-> r.name, path |-> r.path,
     type |-> r.type, size |-> r.size, level |-> r.level]

\* The lazy side has listed every folder above the target depth
LazyComplete ==
    \A r \in twin["b"].db[PrimaryTable] :
        (r.type = "folder" /\ r.level < TwinDepth) => r.checked

\* C10: when the bulk seeder has finished its target depth and list_children
\* has been called on every folder above that depth, the primary tables hold
\* the same set of rows, timestamps and checked left aside.
C10_EagerEqualsLazy ==
    (tmode = "seed" /\ eager.done /\ LazyComplete) =>
        {RowCore(r) : r \in twin["a"].db[PrimaryTable]}
            = {RowCore(r) : r \in twin["b"].db[PrimaryTable]}

----------------------------------------------------------------------------
(* Claims about the flush gate *)

\* Flush calls that have passed ShouldFlush and not yet reset isWriting
PastGate == {p \in QProcs : pc[p] \in {"snap", "reset"}}

\* The step in which process p makes a Flush call (its ShouldFlush)
FlushAttempt(p) ==
    \/ p \in Writers /\ pc[p] = "should" /\ pc'[p] # "should"
    \/ p \in Readers /\ pc[p] = "idle" /\ pc'[p] # "idle"

\* C11: at most one Flush call of a queue is past the should-flush decision
\* at a time, and it holds is_writing; a Flush call made meanwhile returns no
\* batches and leaves the queue as it was.
C11_OneFlushPastGate ==
    /\ [](Cardinality(PastGate) <= 1 /\ (PastGate # {} => wq[QTable].isWriting))
    /\ [][\A p \in QProcs :
            (wq[QTable].isWriting /\ FlushAttempt(p)) =>
                /\ wq' = wq /\ hand' = hand
                /\ pc'[p] \notin {"snap", "reset", "exec"}]_vars

\* A reader's forced Flush was turned away: it is at its query while an
\* operation enqueued before it started is still in the queue, and another
\* Flush call holds the gate.
C11_Witness ==
    /\ PastGate # {}
    /\ \E p \in Readers :
          /\ pc[p] = "query"
          /\ \E k \in mustSee[p] : PendingCount(InsertOp(k)) = 1

\* Flush callers that hold a snapshot whose transaction has not run yet
Executing == {p \in QProcs : pc[p] = "exec" /\ hand[p] # <<>>}

\* C12: while a flush's snapshot waits for or runs its transaction the queue's
\* is_writing gate is still set, and no two callers of one queue are
\* executing batches at the same time.
C12_GateHeldUntilCommit ==
    /\ Executing # {} => wq[QTable].isWriting
    /\ Cardinality(Executing) <= 1

----------------------------------------------------------------------------
(* Claims about a caller reading its own writes *)

\* Ids of the rows whose INSERT is waiting in the queue of table t
QueuedInserts(t) ==
    LET q == wq[t].queue
        ops == Concat(q, CHOOSE o \in Orders(DOMAIN q) : TRUE)
    IN  {ops[i].Query.row.id :
            i \in {j \in DOMAIN ops : ops[j].Query.kind = "insert_ignore"}}

\* C13: when a caller lists, in the same view, a child folder its previous
\* call returned and whose insert is still in the view's queue, the folder
\* info of the child is resolved (the call goes on to generate children).
C13_ListSeesOwnInsert ==
    [][\A c \in Callers :
          (/\ call[c].pc = "idle" /\ call[c].ok
           /\ call'[c] # call[c]
           /\ call'[c].table = call[c].table
           /\ call'[c].folder \in ReturnedFolders(c)
           /\ call'[c].folder \in QueuedInserts(call[c].table))
          => call'[c].pc = "seed"]_vars

----------------------------------------------------------------------------
(* Claims about forced flushes and shutdown *)

\* C14: when ForceFlushTable has returned, every operation enqueued before the
\* call has been executed in a transaction, and the queue is empty unless
\* something was added to it since the call.
C14_ForceFlushDrains ==
    \A p \in Forcers :
        pc[p] = "forced" =>
            /\ \A k \in mustSee[p] : ExecutedCount(InsertOp(k)) >= 1
            /\ added = mustSee[p] => DOMAIN wq[QTable].queue = {}

\* C15: when Close has returned, every operation enqueued before it was
\* called has been executed in a transaction (none runs once the handle is
\* closed).
C15_CloseFlushesAll ==
    ConnClosed => \A k \in mustSee[Closer] : ExecutedCount(InsertOp(k)) >= 1

\* The operation is in a committed transaction
Committed(op) ==
    \E i \in DOMAIN txlog : txlog[i].committed /\ SeqCount(txlog[i].ops, op) > 0

\* C16: under fair scheduling of the timed flusher, every operation whose
\* QueueWrite has returned is eventually committed, with no further call.
C16_EventuallyCommitted ==
    \A k \in 1..NumOps : (k \in enqueued) ~> Committed(InsertOp(k))

----------------------------------------------------------------------------
(* Claims about a failing batch *)

\* C17: a batch with a failing statement ends rolled back, with none of its
\* operations applied and none put back in the queue.
C17_FailedBatchRolledBack ==
    \A i \in DOMAIN txlog :
        ~txlog[i].committed =>
            /\ txlog[i].state = "rolled_back"
            /\ \A j \in DOMAIN txlog[i].ops :
                  /\ PendingCount(txlog[i].ops[j]) = 0
                  /\ txlog[i].ops[j].Query.row.id # <<1>> =>
                        txlog[i].ops[j].Query.row \notin db[QTable]

----------------------------------------------------------------------------
(* Claims about the existence draws *)

\* C18: the existence draws storeChildrenWithSeeds makes for a child a call
\* has returned are a function of the child's seed and of the configured
\* probabilities: whatever order the range over the secondary configurations
\* takes, they give the same map.
C18_DrawsInFixedOrder ==
    \A c \in Callers :
        call[c].ok =>
            \A i \in DOMAIN call[c].items :
                \A o1 \in DrawOrders : \A o2 \in DrawOrders :
                    determineSecondaryExistence(
                        ChildSeedOf(Config.seed, call[c].items[i]), dstProb, o1)
                    = determineSecondaryExistence(
                        ChildSeedOf(Config.seed, call[c].items[i]), dstProb, o2)

----------------------------------------------------------------------------
(* Claims about the checked flag and the rows' attributes *)

\* Folders a successful list_children call was made on, by view
Listed(t) == {a[2] : a \in {x \in DOMAIN first : x[1] = t}}

\* C19: a row is not checked when it is inserted, and once a list_children
\* call on a folder has returned successfully in a view and the queues are
\* drained the folder is checked in that view's table.
C19_CheckedAfterList ==
    /\ [][\A t \in Tables : \A r \in db'[t] :
            r.id \notin RowIds(db[t]) => ~r.checked]_vars
    /\ [](Drained => \A t \in Tables : \A r \in db[t] :
                        r.id \in Listed(t) => r.checked)

\* C20: in every step, each row of each table keeps its id, parent_id, name,
\* path, type, size and level, and a row that is checked stays checked.
C20_RowsImmutable ==
    [][\A t \in Tables : \A r \in db[t] :
          /\ \E r2 \in db'[t] : r2.id = r.id
          /\ \A r2 \in db'[t] :
                r2.id = r.id => (RowCore(r2) = RowCore(r) /\ (r.checked => r2.checked))]_vars

\* A call that materialized its folder again has been committed: one of the
\* children it returned was in the table before and is checked.
C20_Witness ==
    /\ Drained /\ ~dropped
    /\ \E c \in Callers :
          /\ call[c].ok
          /\ \E i \in DOMAIN call[c].items : \E r \in db[call[c].table] :
                r.id = call[c].items[i].ID /\ r.checked

----------------------------------------------------------------------------
\* A ListItems call that has just been started by this step
Started(c) == call[c].pc = "idle" /\ ncalls' = ncalls + 1

\* The folder has a row in the table the call names
HasRow(t, f) == t \in Tables /\ f \in RowIds(db[t])

\* C21: a list_children call on an unknown view id, or on a folder id that has
\* no row in the requested view's table, fails at once: the call returns an
\* error in the step that started it, no write is enqueued, the node cache
\* is unchanged and no row (so no checked flag) changes.
C21_UnknownFailsClean ==
    [][\A c \in Callers :
          (Started(c) /\ ~HasRow(call'[c].table, call'[c].folder))
              => /\ call'[c].pc = "idle" /\ ~call'[c].ok
                 /\ call'[c].items \in {<<"invalid table_id">>, <<"get folder info">>}
                 /\ wq' = wq /\ nodeCache' = nodeCache /\ db' = db]_vars

\* The second call of a run has failed on a folder that has no row in the
\* table of the view it named
C21_Witness ==
    \E c \in Callers :
        /\ call[c].pc = "idle" /\ ~call[c].ok /\ ncalls = 2
        /\ call[c].items = <<"get folder info">>
        /\ call[c].table \in Tables /\ call[c].folder \notin RowIds(db[call[c].table])

----------------------------------------------------------------------------
\* C22: a list_children call through a secondary view returns only children
\* that exist in that view: no returned child has an existence map that
\* marks the view false.
C22_SecondaryListingFiltered ==
    [][\A c \in Callers :
          (call[c].pc = "store" /\ call'[c].ok /\ call'[c].table \in SecondaryNames)
              => \A i \in DOMAIN call'[c].items :
                     Lookup(nodeCache'[call'[c].items[i].ID].ExistenceMap,
                            call'[c].table)]_vars

----------------------------------------------------------------------------
\* The rows of a table at level 0
Roots(t) == {r \in db[t] : r.level = 0}

----------------------------------------------------------------------------
(* Claims about the configuration and the view ids *)

\* The validation rules: 0 <= min <= max for folders, files and depth,
\* min_depth >= 1, a primary table name that is not empty and differs from
\* every secondary name, secondary names all different, dst_prob in [0, 1]
ObeysRules(cfg) ==
    LET p == cfg.Primary
        sec == cfg.Secondary
    IN  /\ 0 <= p.MinChildFolders /\ p.MinChildFolders <= p.MaxChildFolders
        /\ 0 <= p.MinChildFiles /\ p.MinChildFiles <= p.MaxChildFiles
        /\ 1 <= p.MinDepth /\ p.MinDepth <= p.MaxDepth
        /\ p.TableName # ""
        /\ \A k \in DOMAIN sec : sec[k].TableName # p.TableName
        /\ \A k, l \in DOMAIN sec : k # l => sec[k].TableName # sec[l].TableName
        /\ \A k \in DOMAIN sec : 0 <= sec[k].DstProb /\ sec[k].DstProb <= 100

\* C24: opening the client with a configuration that violates a validation
\* rule fails at open: no client is ever open over such a configuration.
C24_InvalidConfigRejected ==
    tm.open => ObeysRules(tm.config)

\* C25: view ids are unique per view and stable: every <<view_id, table_name>>
\* pair list_views has returned for this database still resolves to that
\* table_name in every later open client, the table_name -> view_id lookup
\* gives that view_id back, and list_views never gave two ids to one table
\* or two tables to one id.
C25_ViewIdsStableInverse ==
    tm.open =>
        /\ \A v \in viewsSeen :
              /\ ResolveTableID(tm, vdb.lookup, v[1]).name = v[2]
              /\ GetTableIDByName(tm, v[2]).exists
              /\ GetTableIDByName(tm, v[2]).id = v[1]
        /\ \A v, w \in viewsSeen : (v[1] = w[1]) <=> (v[2] = w[2])

----------------------------------------------------------------------------
(* Claims about the WriteQueue itself *)

\* The step in which p calls Flush and its ShouldFlush decides
FlushCall(p) == pc[p] = "idle" /\ pc'[p] \in {"snap", "nil"}

\* C26: Flush(force) goes on to take a snapshot exactly when is_writing is
\* false and (force, or ready_to_write, or the flush interval has elapsed and
\* the queue is not empty); otherwise it returns no batches and leaves the
\* queue, ready_to_write, is_writing and last_flushed as they were.
C26_FlushExactlyWhenDue ==
    [][\A p \in FlushCallers :
          LET w == wq[QTable]
              due == /\ ~w.isWriting
                     /\ \/ p \in ForceCallers
                        \/ w.readyToWrite
                        \/ w.elapsed /\ DOMAIN w.queue # {}
          IN  /\ FlushCall(p) =>
                    /\ (pc'[p] = "snap") <=> due
                    /\ ~due => (wq' = wq /\ hand' = hand)
              /\ (pc[p] = "nil" /\ pc'[p] = "idle") => (wq' = wq /\ hand' = hand)]_vars

\* An unforced Flush has returned nil on an empty queue whose interval had
\* elapsed and whose gate was free, after an earlier Flush returned batches
C26_Witness ==
    /\ pc["p1"] = "nil"
    /\ wq[QTable].elapsed /\ ~wq[QTable].isWriting /\ ~wq[QTable].readyToWrite
    /\ DOMAIN wq[QTable].queue = {}
    /\ \E p \in ForceCallers : hand[p] # <<>>

\* The operations AddOp can hand to Add
AllOps == {PlainOp(k) : k \in 1..NumOps} \cup {PathOp(k) : k \in 1..NumOps}

\* C27: Add only appends to the queue and may set ready_to_write; operations
\* leave the queue only in the snapshot step of a Flush; and under every
\* interleaving of Add and Flush calls the operations returned by the Flush
\* calls plus those still pending are exactly the operations added, each
\* once.
C27_NothingLostOrDuplicated ==
    /\ [](\A op \in AllOps :
             PendingCount(op) + InHandCount(FlushCallers, op)
                 = IF op \in added THEN 1 ELSE 0)
    /\ [][/\ added' # added =>
               LET w == wq[QTable]
                   op == CHOOSE o \in added' : o \notin added
               IN  /\ \A q \in DOMAIN w.queue : q # op.Path =>
                          q \in DOMAIN wq'[QTable].queue /\ wq'[QTable].queue[q] = w.queue[q]
                   /\ wq'[QTable].queue[op.Path] =
                          (IF op.Path \in DOMAIN w.queue THEN w.queue[op.Path] ELSE <<>>)
                              \o <<op>>
                   /\ w.readyToWrite => wq'[QTable].readyToWrite
                   /\ wq'[QTable].isWriting = w.isWriting
                   /\ wq'[QTable].elapsed = w.elapsed
                   /\ hand' = hand
          /\ (\E op \in AllOps : PendingCount(op)' < PendingCount(op)) =>
               \E p \in FlushCallers : pc[p] = "snap" /\ pc'[p] = "reset"]_vars

\* Every operation has been added, two Flush calls by different callers have
\* returned batches and one operation is still pending
C27_Witness ==
    /\ nextOp > NumOps
    /\ \E p, q \in FlushCallers : p # q /\ hand[p] # <<>> /\ hand[q] # <<>>
    /\ DOMAIN wq[QTable].queue # {}

----------------------------------------------------------------------------
(* Claims about the order of execution *)

\* The operations batchExecute has run on the table, in the order it ran them
RECURSIVE Applied(_)
Applied(log) ==
    IF log = <<>> THEN <<>> ELSE Head(log).ops \o Applied(Tail(log))

\* Position of an operation in the order of the Add calls
EnqueueIndex(op) == op.Query.row.id[1]

\* C28: the operations enqueued on a table are applied in the order they
\* were enqueued, within a batch and across the batches different flushers
\* took.
C28_AppliedInEnqueueOrder ==
    \A i, j \in DOMAIN Applied(txlog) :
        i < j => EnqueueIndex(Applied(txlog)[i]) < EnqueueIndex(Applied(txlog)[j])

\* Transactions that carry a child row of the call
WithChild == {i \in DOMAIN txlog :
                 \E k \in DOMAIN txlog[i].ops, n \in DOMAIN StoreOps :
                     txlog[i].ops[k] = StoreOps[n]}

\* C29: the child rows one list_children call queues for a table while fewer
\* than batch_size operations are pending are committed in one transaction,
\* also when the timed flusher runs during the call: no two transactions
\* carry child rows of the call.
C29_ChildrenInOneTransaction ==
    Len(StoreOps) < GenBatchSize => Cardinality(WithChild) <= 1

----------------------------------------------------------------------------
(* Claims about the seeds *)

\* C30: every child_seed held in the node cache or stored on a row is the
\* hash of the master seed and the node's id; no state holds another seed or
\* the placeholder for a node.
C30_SeedsAreHashes ==
    /\ \A id \in DOMAIN nodeCache :
          nodeCache[id].ChildSeed = generateDeterministicSeed(Config.seed, id)
    /\ \A t \in Tables : \A r \in db[t] :
          r.child_seed # NoSeed =>
              r.child_seed = generateDeterministicSeed(Config.seed, r.id)

----------------------------------------------------------------------------
(* Claims about the cache and the generated lists *)

\* C31: whenever the node cache holds an entry for a node whose primary row
\* carries an existence map, the cached map equals the map on that row,
\* whether the entry came from the start-up load or from list_children.
C31_CacheMatchesPrimaryRow ==
    \A id \in DOMAIN nodeCache :
        \A r \in db[PrimaryTable] :
            (r.id = id /\ r.has_map) =>
                nodeCache[id].ExistenceMap = FromJSON(r.emap)

\* The folders of a returned list, in order
FoldersOf(items) == SelectSeq(items, LAMBDA n : n.Type = "folder")

\* C32: for every folder, the list returned with folders_only = true is
\* exactly the folders of the list returned with folders_only = false, same
\* ids, same order.
C32_FoldersOnlyIsPrefix ==
    \A a, b \in DOMAIN first :
        (a[1] = b[1] /\ a[2] = b[2] /\ a[3] /\ ~b[3]) =>
            first[a].items = FoldersOf(first[b].items)

\* C33: listing two different folders in one order or the other gives the
\* same returned lists and the same final table contents.
C33_ParentsCommute ==
    (tmode = "commute" /\ \A s \in Sides : eager.done[s] = 2) =>
        /\ {eager.ret["a"][i] : i \in 1..2} = {eager.ret["b"][i] : i \in 1..2}
        /\ twin["a"].db = twin["b"].db

----------------------------------------------------------------------------
(* Claims about the shape of the tree *)

\* join of the specification: join("/", name) = "/" + name, otherwise
\* p + "/" + name
Join(p, name) == IF p = "/" THEN "/" \o name ELSE p \o "/" \o name

\* C35: every non-root row, created by the lazy generator or by the bulk
\* seeder, has level = parent.level + 1 and path = join(parent.path, name).
C35_LevelAndPathFromParent ==
    \A t \in Tables : \A r \in db[t] :
        r.parent_id # <<>> =>
            \A p \in db[PrimaryTable] :
                p.id = r.parent_id =>
                    /\ r.level = p.level + 1
                    /\ r.path = Join(p.path, r.name)

----------------------------------------------------------------------------
(* Claims about the generated children *)

\* The files of a returned list, in order
FilesOf(items) == SelectSeq(items, LAMBDA n : n.Type = "file")

\* C36: every list has between min_child_folders and max_child_folders
\* folders named folder_0 .. folder_(n-1), all of size 0, followed (unless
\* folders_only) by between min_child_files and max_child_files files named
\* file_0.txt .. file_(m-1).txt with sizes in [100, 999]; with min = max the
\* count is that value.
C36_CountsNamesSizes ==
    (tmode = "children" /\ eager.done) =>
        LET cfg == eager.cfg
            folders == FoldersOf(eager.items)
            files == FilesOf(eager.items)
        IN  /\ eager.items = folders \o files
            /\ cfg.MinChildFolders <= Len(folders) /\ Len(folders) <= cfg.MaxChildFolders
            /\ \A i \in DOMAIN folders :
                  folders[i].Name = FolderName(i - 1) /\ folders[i].Size = 0
            /\ eager.foldersOnly => files = <<>>
            /\ ~eager.foldersOnly =>
                  /\ cfg.MinChildFiles <= Len(files) /\ Len(files) <= cfg.MaxChildFiles
            /\ \A i \in DOMAIN files :
                  /\ files[i].Name = FileName(i - 1)
                  /\ 100 <= files[i].Size /\ files[i].Size <= 999

\* A list built under min = max = MaxChildren for folders and for files
C36_Witness ==
    /\ tmode = "children" /\ eager.done /\ ~eager.foldersOnly
    /\ eager.cfg.MinChildFolders = MaxChildren /\ eager.cfg.MinChildFiles = MaxChildren
    /\ Len(eager.items) = 2 * MaxChildren

----------------------------------------------------------------------------
(* Claims about the bulk seeder *)

\* How often the seeder took the row as a parent
TimesVisited(id) == Cardinality({i \in DOMAIN eager.visited : eager.visited[i] = id})

\* C37: when bulk seeding has ended, generation_completed is true, no row
\* lies deeper than the target depth D, D is within [min_depth, max_depth],
\* and every folder row above level D was taken as a parent exactly once.
C37_EveryParentVisitedOnce ==
    (tmode = "bulk" /\ eager.at = "done") =>
        /\ eager.completed
        /\ eager.cfg.MinDepth <= eager.depth /\ eager.depth <= eager.cfg.MaxDepth
        /\ \A r \in db[QTable] :
              /\ r.level <= eager.depth
              /\ (r.type = "folder" /\ r.level < eager.depth) => TimesVisited(r.id) = 1

----------------------------------------------------------------------------
(* Claims about readyToWrite *)

\* C38: ready_to_write is set only on a queue that holds at least batch_size
\* operations, whatever the interleaving of Add and Flush.
C38_ReadyOnlyWhenFull ==
    \A t \in Tables :
        wq[t].readyToWrite =>
            TotalOps(wq[t].queue, DOMAIN wq[t].queue) >= wq[t].batchSize

----------------------------------------------------------------------------
(* Claims about files *)

\* C39: only folders have children: no row's parent_id is the id of a file
\* row, also after ListItems was called with the id of a file row.
C39_OnlyFoldersHaveChildren ==
    \A t \in Tables : \A r \in db[t] :
        \A u \in Tables : \A p \in db[u] :
            p.id = r.parent_id => p.type = "folder"

----------------------------------------------------------------------------
(* Claims about concurrent calls *)

\* Rows of a table for one child of a folder
RowsNamed(t, parent, name) == {r \in db[t] : r.parent_id = parent /\ r.name = name}

\* Both callers have returned from a successful call on the same view with
\* the same folders_only, and every queue is empty
PairDone ==
    /\ DOMAIN call = PairCallers
    /\ \A c \in PairCallers : call[c].pc = "idle" /\ call[c].ok
    /\ call["c1"].table = call["c2"].table
    /\ call["c1"].foldersOnly = call["c2"].foldersOnly
    /\ \A t \in Tables : wq[t].queue = EmptyQueue

\* C34: two concurrent calls on the same folder return equal lists and, with
\* the queues drained, the primary table holds exactly one row per returned
\* child and no table holds two rows of one name under the folder.
C34_ConcurrentCallsAgree ==
    PairDone =>
        /\ call["c1"].items = call["c2"].items
        /\ \A i \in DOMAIN call["c1"].items :
              Cardinality(RowsNamed(PrimaryTable, GenRootID, call["c1"].items[i].Name)) = 1
        /\ \A t \in Tables : \A r \in db[t] :
              Cardinality(RowsNamed(t, r.parent_id, r.name)) = 1

====
